---- MODULE Spec2Model ----
(***************************************************************************)
(* Model of the Gemini Cloud Assist MCP server's investigation client      *)
(* (src/src/troubleshooting/api/api.ts) and of the tool handlers that call *)
(* it (src/src/tools.ts).                                                  *)
(*                                                                         *)
(* Every invocation (a tool call, or a direct call of a client method) is  *)
(* a process.  JavaScript runs one callback at a time, so a step of a      *)
(* process is the code between two suspension points that wait for the     *)
(* outside world (a remote call or a timer): the step consumes the answer  *)
(* of the call the process was waiting for and runs up to the next call.   *)
(***************************************************************************)
EXTENDS Integers, Sequences, FiniteSets, TLC

\* ------------------------------------------------------------------ bounds
NumOps == 2            \* invocations that may run concurrently on one client
ConcPending == 1       \* not-done answers per run when invocations are concurrent
MaxMerges == 3         \* successive merges applied to one snapshot
MaxEntries == 3         \* entries of a list given to validateGcpResources
MaxHeapSteps == 2      \* merges and assignments a caller makes on its records
MaxListed == 2         \* investigations in an answer of investigations.list

\* ------------------------------------------------------- program constants
INITIAL_BACKOFF_SECONDS == 1
MAX_BACKOFF_SECONDS == 32
BACKOFF_FACTOR == 2
MAX_POLLING_ATTEMPTS == 20
PRIMARY_USER_OBSERVATION_ID == "user.input.text"
PROJECT_OBSERVATION_ID == "user.project"

\* ------------------------------------------------------------ value spaces
Procs == 1..NumOps
SharedClient == 0                       \* the client object direct calls share
Clients == {SharedClient} \cup Procs    \* client p: the one tool invocation p constructs
Ops == {"fetch", "create", "run", "add"}
RemoteErrors == {"errX", "errY"}        \* error payloads of the backend
Jitters == {0, 999}                     \* Math.random() in [0,1), in milliseconds
NoResponse == "noresp"                  \* a thrown error without error.response

Min(a, b) == IF a < b THEN a ELSE b

\* -------------------------------------------------------------- data model
Absent == <<>>                          \* a property that is not set
Truthy(v) == v # Absent

\* a resource reference: a well-formed //<service>.googleapis.com/<path> URI
\* or a string of another shape; n tells references of one shape apart
GcpResource(n) == [form |-> "gcp", n |-> n]
BadResource(n) == [form |-> "other", n |-> n]

\* one observation of an investigation; text is the list of its lines
Observation(id, observerType, text, relevantResources, timeRanges, timeIntervals) ==
    [id |-> id, observerType |-> observerType, text |-> text,
     relevantResources |-> relevantResources,
     timeRanges |-> timeRanges, timeIntervals |-> timeIntervals]

\* an investigation record: observations maps observation ids to observations
\* when hasObservations, and is not set otherwise
Investigation(title, observations) ==
    [title |-> title, hasObservations |-> TRUE, observations |-> observations]
WithoutObservations(title) ==
    [title |-> title, hasObservations |-> FALSE, observations |-> <<>>]

UserProject ==
    Observation(PROJECT_OBSERVATION_ID, "OBSERVER_TYPE_USER", <<0>>, <<>>, Absent, Absent)

\* the investigation of the tests: a primary user observation that still has
\* the deprecated timeRanges, and the project observation
SnapA ==
    Investigation("A",
        [id \in {PRIMARY_USER_OBSERVATION_ID, PROJECT_OBSERVATION_ID} |->
            IF id = PRIMARY_USER_OBSERVATION_ID
            THEN Observation(id, "OBSERVER_TYPE_USER", <<0>>, <<GcpResource(0)>>,
                             <<"start">>, Absent)
            ELSE UserProject])

\* an investigation without an observations property
SnapB == WithoutObservations("B")

Snapshots == {SnapA, SnapB}             \* investigation records the backend may return
NullData == [null |-> TRUE]             \* res.data absent
NoData == [none |-> TRUE]               \* no record at all (nothing received yet)
OpPayload == [embedded |-> TRUE]        \* the response embedded in a finished operation

\* Object.values(observations).filter(o => o.observerType === 'OBSERVER_TYPE_USER').length
UserObservationCount(investigation) ==
    IF investigation.hasObservations
    THEN Cardinality({id \in DOMAIN investigation.observations :
            investigation.observations[id].observerType = "OBSERVER_TYPE_USER"})
    ELSE 0

HasPrimary(investigation) ==
    /\ "hasObservations" \in DOMAIN investigation
    /\ investigation.hasObservations
    /\ PRIMARY_USER_OBSERVATION_ID \in DOMAIN investigation.observations

InList(list, x) == \E i \in DOMAIN list : list[i] = x

\* variant: the new resources are appended whether or not they are held already
MergeResources_Concat(existing, new) == existing \o new

\* the resources of the observation followed by the new ones it does not hold yet
RECURSIVE MergeResources(_, _)
MergeResources(existing, new) ==
    IF new = <<>> THEN existing
    ELSE MergeResources(IF InList(existing, Head(new)) THEN existing
                        ELSE Append(existing, Head(new)),
                        Tail(new))

\* variant: the observation is created empty
NewPrimary_Unseeded(observation, relevant_resources) ==
    Observation(PRIMARY_USER_OBSERVATION_ID, "OBSERVER_TYPE_USER", <<>>, <<>>,
                Absent, Absent)

\* the primary user observation a merge creates when there is none
NewPrimary(observation, relevant_resources) ==
    Observation(PRIMARY_USER_OBSERVATION_ID, "OBSERVER_TYPE_USER", <<observation>>,
                MergeResources(<<>>, relevant_resources), Absent, Absent)

\* the observations mapping with one entry set
WithObservation(observations, id, o) ==
    [k \in DOMAIN observations \cup {id} |-> IF k = id THEN o ELSE observations[k]]

\* variant: the new text is stored as an observation of its own
getRevisionWithNewObservation_NewEntry(latestRevision, observation, relevant_resources) ==
    IF latestRevision = NullData THEN NullData
    ELSE [snapshot |->
            [latestRevision EXCEPT
                !.hasObservations = TRUE,
                !.observations =
                    WithObservation(@, "user.input.text.2",
                        [NewPrimary(observation, relevant_resources)
                            EXCEPT !.id = "user.input.text.2"])]]

\* variant: the new text takes the place of the text of the primary observation
getRevisionWithNewObservation_Replaces(latestRevision, observation, relevant_resources) ==
    IF latestRevision = NullData THEN NullData
    ELSE IF HasPrimary(latestRevision)
    THEN [snapshot |->
            [latestRevision EXCEPT
                !.observations[PRIMARY_USER_OBSERVATION_ID] =
                    [@ EXCEPT !.text = <<observation>>,
                              !.relevantResources =
                                  MergeResources(@, relevant_resources)]]]
    ELSE [snapshot |->
            [latestRevision EXCEPT
                !.hasObservations = TRUE,
                !.observations =
                    WithObservation(@, PRIMARY_USER_OBSERVATION_ID,
                                    NewPrimary(observation, relevant_resources))]]

\* variant: a null record is merged into as if it were an empty investigation
getRevisionWithNewObservation_NullAsEmpty(latestRevision, observation, relevant_resources) ==
    IF latestRevision = NullData
    THEN [snapshot |->
            Investigation("",
                WithObservation(<<>>, PRIMARY_USER_OBSERVATION_ID,
                                NewPrimary(observation, relevant_resources)))]
    ELSE IF HasPrimary(latestRevision)
    THEN [snapshot |->
            [latestRevision EXCEPT
                !.observations[PRIMARY_USER_OBSERVATION_ID] =
                    [@ EXCEPT !.text = Append(@, observation),
                              !.relevantResources =
                                  MergeResources(@, relevant_resources)]]]
    ELSE [snapshot |->
            [latestRevision EXCEPT
                !.hasObservations = TRUE,
                !.observations =
                    WithObservation(@, PRIMARY_USER_OBSERVATION_ID,
                                    NewPrimary(observation, relevant_resources))]]

\* getRevisionWithNewObservation(latestRevision, observation, relevant_resources):
\* null for a null record, else the revision request {snapshot} in which the
\* primary user observation has the text appended and the resources merged
getRevisionWithNewObservation(latestRevision, observation, relevant_resources) ==
    IF latestRevision = NullData THEN NullData
    ELSE IF HasPrimary(latestRevision)
    THEN [snapshot |->
            [latestRevision EXCEPT
                !.observations[PRIMARY_USER_OBSERVATION_ID] =
                    [@ EXCEPT !.text = Append(@, observation),
                              !.relevantResources =
                                  MergeResources(@, relevant_resources)]]]
    ELSE [snapshot |->
            [latestRevision EXCEPT
                !.hasObservations = TRUE,
                !.observations =
                    WithObservation(@, PRIMARY_USER_OBSERVATION_ID,
                                    NewPrimary(observation, relevant_resources))]]

\* validateGcpResources(resources): the entries that are not well-formed, in order
IsValidGcpResource(r) == r.form = "gcp"

\* variant: only the entries that are strings are tested
validateGcpResources_StringsOnly(resources) ==
    SelectSeq(resources, LAMBDA r : ~IsValidGcpResource(r) /\ r.form \in {"other", "empty"})

validateGcpResources(resources) ==
    SelectSeq(resources, LAMBDA r : ~IsValidGcpResource(r))

\* createInitialInvestigation(title, projectId, issue_description,
\* relevant_resources, start_time)
createInitialInvestigation(relevant_resources) ==
    Investigation("new",
        [id \in {PRIMARY_USER_OBSERVATION_ID, PROJECT_OBSERVATION_ID} |->
            IF id = PRIMARY_USER_OBSERVATION_ID
            THEN Observation(id, "OBSERVER_TYPE_USER", <<0>>, relevant_resources,
                             Absent, <<"start">>)
            ELSE UserProject])

\* the rewrite createInvestigation applies to one observation of the copy
NormalizeObservation(obs) ==
    IF Truthy(obs.timeRanges) /\ ~Truthy(obs.timeIntervals)
    THEN [obs EXCEPT !.timeIntervals = obs.timeRanges, !.timeRanges = Absent]
    ELSE obs

\* investigationForRequest: the deep copy of the payload, every observation rewritten
InvestigationForRequest(investigation) ==
    IF investigation.hasObservations
    THEN [investigation EXCEPT
            !.observations = [id \in DOMAIN @ |-> NormalizeObservation(@[id])]]
    ELSE investigation

\* ------------------------------------------------------------------ errors
Text(s) == [kind |-> "text", val |-> s]
Payload(e) == [kind |-> "payload", val |-> e]
CurrentStatus(d) == [kind |-> "currentStatus", val |-> d]

\* new ApiError(message, code, details); args are the values the message quotes
ApiError(message, code, details) ==
    [name |-> "ApiError", message |-> message, code |-> code, details |-> details,
     args |-> <<>>]

\* an exception that is not an ApiError; e is what error.response.data holds
PlainError(message, e) ==
    [name |-> "Error", message |-> message, code |-> 0, details |-> Payload(e),
     args |-> <<>>]

NoError == [name |-> "none", message |-> "", code |-> 0, details |-> Text(""),
            args |-> <<>>]

\* const details = error.response ? error.response.data : 'No details available.'
DetailsOf(error) ==
    IF error.details.val = NoResponse THEN Text("No details available.")
    ELSE error.details

Thrown == {PlainError("transport", e) : e \in {"errX", NoResponse}}

VARIABLES
    isInitialized,     \* client field, per client
    licenseValidated,  \* client field, per client
    geminiassist,      \* client field: 0 is null, n > 0 the n-th discovered API
    authCalls,         \* history: getAccessToken calls issued, per client
    discoverCalls,     \* history: google.discoverAPI calls issued, per client
    maxPending,        \* environment: not-done answers the backend gives per run
    remote,            \* backend: the latest revision of the investigation
    call               \* per invocation: its parameters, locals, position, history

clientVars == <<isInitialized, licenseValidated, geminiassist, authCalls, discoverCalls>>
vars == <<isInitialized, licenseValidated, geminiassist, authCalls, discoverCalls,
          maxPending, remote, call>>

\* the client an invocation works on
ClientOf(s, p) == IF s.via = "tool" THEN p ELSE SharedClient

\* Each operator below maps the record of an invocation to its next record.

Log(s, e) == [s EXCEPT !.log = Append(@, e)]

\* the request handed to the API: target is the name or parent it addresses
Request(method, target, body, filter, pageToken) ==
    [method |-> method, target |-> target, body |-> body,
     filter |-> filter, pageToken |-> pageToken]
NoRequest == Request("none", "", NoData, FALSE, FALSE)

\* the request is issued: it is logged under e and the invocation waits at pc
Issue(s, e, pc, request) == [Log(s, e) EXCEPT !.pc = pc, !.request = request]

\* what a call hands back: the raw record, or the text the viewer renders from it
Raw(d) == [form |-> "raw", data |-> d, full |-> TRUE]
Report(d, showObservationsAndHypotheses) ==
    [form |-> "report", data |-> d, full |-> showObservationsAndHypotheses]
Listing == [form |-> "listing", data |-> NoData, full |-> TRUE]
NoValue == [form |-> "none", data |-> NoData, full |-> TRUE]

\* viewer.render({showObservationsAndHypotheses}): the headers of the sections
\* of the report, in order
render(data, showObservationsAndHypotheses) ==
    <<"## Issue">>
        \o (IF showObservationsAndHypotheses
            THEN <<"## Relevant Observations", "## Hypotheses">> ELSE <<>>)
        \o <<"Investigation Link">>

\* a CallToolResult: text content, or the structured error of an ApiError
ToolContent(type, value, error) ==
    [type |-> type, value |-> value, code |-> error.code, message |-> error.message,
     details |-> error.details, args |-> error.args]
NoResult == ToolContent("none", NoValue, NoError)

\* error.toToolResult()
ToToolResult(error) == ToolContent("error", NoValue, error)

\* toolWrapper(cb) once cb has settled with outcome o
toolWrapper(o) ==
    IF o.status = "ok" THEN ToolContent("text", o.value, NoError)
    ELSE IF o.error.name = "ApiError" THEN ToToolResult(o.error)
    ELSE ToolContent("text", NoValue, [NoError EXCEPT !.message = o.error.message])

\* the invocation ends with outcome o; a tool invocation resolves with the
\* result toolWrapper makes of it
Settle(s, o) ==
    [s EXCEPT !.pc = "done", !.outcome = o,
              !.result = IF s.via = "tool" THEN toolWrapper(o) ELSE NoResult]

\* variant: every handler renders with the default options
ToolResult_AlwaysFull(s, v) ==
    CASE s.op \in {"run", "create", "add"} -> Report(v.data, TRUE)
      [] OTHER -> v

\* the tool handler's code after the client call returned
ToolResult(s, v) ==
    CASE s.op = "run" -> Report(v.data, TRUE)
      [] s.op \in {"create", "add"} -> Report(v.data, FALSE)
      [] OTHER -> v

Return(s, v) ==
    Settle(s, [status |-> "ok", error |-> NoError,
               value |-> IF s.via = "tool" THEN ToolResult(s, v) ELSE v])

Throw(s, error) ==
    Settle(s, [status |-> "err", error |-> error, value |-> NoValue])

Threw(s) == s.pc = "done" /\ s.outcome.status = "err"

\* the failures of InvestigationPath
InvalidArgumentError(message) == ApiError(message, 400, Text("INVALID_ARGUMENT"))
MissingIdentifier(message) == ApiError(message, 400, Text("MISSING_IDENTIFIER"))

\* ------------------------------------------------------------ resource names
\* InvestigationPath on strings.  A string is the list of the pieces that
\* its "/" separate: "invalid/path" is <<"invalid", "path">>, the empty string
\* is <<"">>, and an identifier that contains a "/" has two pieces.

\* the identifiers a caller may pass: none is empty, one contains a "/" and
\* one is a word the names use
PathIds == {<<"p1">>, <<"i1">>, <<"r1">>, <<"revisions">>, <<"a", "b">>}

PathOf(projectId, investigationId, revisionId) ==
    [projectId |-> projectId, investigationId |-> investigationId,
     revisionId |-> revisionId]
NoPath == PathOf(Absent, Absent, Absent)

\* what a call returns (ok) or throws
Returned(v) == [ok |-> TRUE, value |-> v, error |-> NoError]
Raised(error) == [ok |-> FALSE, value |-> <<>>, error |-> error]

\* new InvestigationPath(projectId, investigationId, revisionId)
InvestigationPath(projectId, investigationId, revisionId) ==
    IF Truthy(revisionId) /\ ~Truthy(investigationId)
    THEN [ok |-> FALSE, path |-> NoPath,
          error |-> InvalidArgumentError("revisionId requires investigationId")]
    ELSE [ok |-> TRUE, path |-> PathOf(projectId, investigationId, revisionId),
          error |-> NoError]

\* path.getParent()
getParent(path) == <<"projects">> \o path.projectId \o <<"locations", "global">>

\* path.getInvestigationName()
getInvestigationName(path) ==
    IF ~Truthy(path.investigationId)
    THEN Raised(MissingIdentifier("Investigation ID is not set"))
    ELSE Returned(getParent(path) \o <<"investigations">> \o path.investigationId)

\* path.getRevisionName()
getRevisionName(path) ==
    IF ~Truthy(path.investigationId) \/ ~Truthy(path.revisionId)
    THEN Raised(MissingIdentifier("Revision ID are not set"))
    ELSE Returned(getParent(path) \o <<"investigations">> \o path.investigationId
                    \o <<"revisions">> \o path.revisionId)

\* what fromInvestigationName returns: null, a path, or the error it raised
ParsedNull == [kind |-> "null", path |-> NoPath, error |-> NoError]
ParsedFrom(constructed) ==
    IF constructed.ok
    THEN [kind |-> "path", path |-> constructed.path, error |-> NoError]
    ELSE [kind |-> "error", path |-> NoPath, error |-> constructed.error]

\* the piece of name at place k as an identifier, when the piece before it is
\* the word and the piece is not empty
IdAfter(name, k, word) ==
    IF k <= Len(name) /\ name[k - 1] = word /\ name[k] # ""
    THEN <<name[k]>> ELSE Absent

\* variant: the investigations and revisions parts are looked for
\* independently of each other
fromInvestigationName_OptionalParts(name) ==
    LET n == Len(name)
        rest == IF n >= 6 /\ name[5] = "investigations" THEN 7 ELSE 5
    IN IF /\ n >= 4
          /\ Truthy(IdAfter(name, 2, "projects"))
          /\ name[3] = "locations" /\ name[4] = "global"
          /\ n \in {rest - 1, rest + 1}
          /\ rest = 7 => Truthy(IdAfter(name, 6, "investigations"))
          /\ n = rest + 1 => Truthy(IdAfter(name, rest + 1, "revisions"))
       THEN ParsedFrom(InvestigationPath(
                IdAfter(name, 2, "projects"),
                IF rest = 7 THEN IdAfter(name, 6, "investigations") ELSE Absent,
                IF n = rest + 1 THEN IdAfter(name, rest + 1, "revisions") ELSE Absent))
       ELSE ParsedNull

\* variant: the revision of a revision name is dropped
fromInvestigationName_DropsRevision(name) ==
    LET n == Len(name) IN
    IF /\ n \in {4, 6, 8}
       /\ Truthy(IdAfter(name, 2, "projects"))
       /\ name[3] = "locations" /\ name[4] = "global"
       /\ n >= 6 => Truthy(IdAfter(name, 6, "investigations"))
       /\ n = 8 => Truthy(IdAfter(name, 8, "revisions"))
    THEN ParsedFrom(InvestigationPath(
            IdAfter(name, 2, "projects"),
            IF n >= 6 THEN IdAfter(name, 6, "investigations") ELSE Absent,
            Absent))
    ELSE ParsedNull

\* InvestigationPath.fromInvestigationName(name): the identifiers at their
\* places in a project, investigation or revision name, null for another string
fromInvestigationName(name) ==
    LET n == Len(name) IN
    IF /\ n \in {4, 6, 8}
       /\ Truthy(IdAfter(name, 2, "projects"))
       /\ name[3] = "locations" /\ name[4] = "global"
       /\ n >= 6 => Truthy(IdAfter(name, 6, "investigations"))
       /\ n = 8 => Truthy(IdAfter(name, 8, "revisions"))
    THEN ParsedFrom(InvestigationPath(
            IdAfter(name, 2, "projects"),
            IF n >= 6 THEN IdAfter(name, 6, "investigations") ELSE Absent,
            IF n = 8 THEN IdAfter(name, 8, "revisions") ELSE Absent))
    ELSE ParsedNull

\* the most qualified name a path has
FullName(path) ==
    IF Truthy(path.revisionId) THEN getRevisionName(path)
    ELSE IF Truthy(path.investigationId) THEN getInvestigationName(path)
    ELSE Returned(getParent(path))

\* name with the piece at place k replaced, with the piece removed, and with
\* a piece more
WithPiece(name, k, piece) == [name EXCEPT ![k] = piece]
WithoutPiece(name, k) == SubSeq(name, 1, k - 1) \o SubSeq(name, k + 1, Len(name))

\* the strings fromInvestigationName is tried on: the names of the tests, and
\* the strings that differ from one of them in one piece
NameSamples ==
    LET good == {FullName(PathOf(<<"p1">>, i, r)).value :
                    i \in {Absent, <<"i1">>}, r \in {Absent, <<"r1">>}} \ {<<>>}
    IN good \cup {<<"">>, <<"invalid", "path">>}
            \cup UNION {{WithPiece(name, k, piece) :
                            k \in DOMAIN name, piece \in {"", "x"}} : name \in good}
            \cup UNION {{WithoutPiece(name, k) : k \in DOMAIN name} : name \in good}
            \cup {name \o <<piece>> : name \in good, piece \in {"", "x"}}
            \cup {<<"projects", "p1", "locations", "global", "revisions", "r1">>}

\* --------------------------------------------------------- local transitions

\* new InvestigationPath(projectId, investigationId, revisionId)
PathCtorFails(investigationId, revisionId) == revisionId /\ ~investigationId
\* path.getRevisionName()
GetRevisionNameFails(investigationId, revisionId) == ~(investigationId /\ revisionId)
\* path.getInvestigationName()
GetInvestigationNameFails(investigationId) == ~investigationId

\* _getInvestigationRaw up to the get it issues; the name is built before the try
GetInvestigationRaw(s, investigationId, revisionId, cont) ==
    IF PathCtorFails(investigationId, revisionId)
    THEN Throw(s, InvalidArgumentError("revisionId requires investigationId"))
    ELSE IF revisionId /\ GetRevisionNameFails(investigationId, revisionId)
    THEN Throw(s, MissingIdentifier("Revision ID are not set"))
    ELSE IF ~revisionId /\ GetInvestigationNameFails(investigationId)
    THEN Throw(s, MissingIdentifier("Investigation ID is not set"))
    ELSE [Issue(s, IF revisionId THEN "get:revision" ELSE "get:investigation", "get",
                Request("investigations.get",
                        IF revisionId THEN "revision" ELSE "investigation",
                        NoData, FALSE, FALSE))
             EXCEPT !.cont = cont]

\* _getInvestigationRaw's catch
GetFailed(s, error) ==
    Throw(s, ApiError("Could not find Investigation ID", 404, DetailsOf(error)))

\* _listInvestigations up to the list it issues
ListInvestigations(s, filter) ==
    Issue(s, "list", "list",
          Request("investigations.list", "parent", NoData, filter, FALSE))

\* the project the invocations work on
ListProject == <<"p1">>

\* an investigation as investigations.list returns it (the fields asked for:
\* name, title, executionState)
ListEntry(name, title, executionState) ==
    [name |-> name, title |-> title, executionState |-> executionState]

\* the entries the backend may list: two investigations of the project, one
\* whose name is no resource name, and one whose name is the project's
ListEntries ==
    {ListEntry(getInvestigationName(PathOf(ListProject, <<"i1">>, Absent)).value,
               "first", "INVESTIGATION_EXECUTION_STATE_COMPLETED"),
     ListEntry(getInvestigationName(PathOf(ListProject, <<"i2">>, Absent)).value,
               "second", "INVESTIGATION_EXECUTION_STATE_RUNNING"),
     ListEntry(<<"invalid", "path">>, "odd", "INVESTIGATION_EXECUTION_STATE_FAILED"),
     ListEntry(getParent(PathOf(ListProject, Absent, Absent)), "bare",
               "INVESTIGATION_EXECUTION_STATE_UNSPECIFIED")}

\* res.data of investigations.list: the investigations property may be
\* missing, and so may nextPageToken
ListData(hasInvestigations, investigations, nextPageToken) ==
    [hasInvestigations |-> hasInvestigations, investigations |-> investigations,
     nextPageToken |-> nextPageToken]

\* the answers of investigations.list: up to MaxListed entries in any order
ListAnswers ==
    LET lists == UNION {[1..n -> ListEntries] : n \in 0..MaxListed} IN
    {ListData(TRUE, l, t) : l \in lists, t \in {Absent, <<"token">>}}
        \cup {ListData(FALSE, <<>>, t) : t \in {Absent, <<"token">>}}

\* getInvestigationLink(projectId, investigationId): the console link, which
\* quotes the two identifiers
getInvestigationLink(projectId, investigationId) ==
    [project |-> projectId, investigation |-> investigationId]

\* the paragraphs of the listing: the block of one investigation, and the line
\* that quotes the page token
Block(invId, title, state, link) ==
    [kind |-> "block", id |-> invId, title |-> title, state |-> state, link |-> link]
MoreLine(token) == [kind |-> "more", token |-> token]

\* what a template literal shows of an identifier: the string, or "null"
Shown(id) == IF Truthy(id) THEN id ELSE <<"null">>

\* variant: the identifier is read off the parsed name without a check
ListBlock_Unchecked(projectId, inv) ==
    LET invPath == fromInvestigationName(inv.name)
        invId == invPath.path.investigationId
    IN Block(Shown(invId), inv.title, inv.executionState,
             getInvestigationLink(projectId, IF Truthy(invId) THEN invId ELSE <<"">>))

\* the callback of investigations.map: the block of inv
ListBlock(projectId, inv) ==
    LET invPath == fromInvestigationName(inv.name)
        invId == IF invPath.kind = "null" THEN <<"N/A">>
                 ELSE invPath.path.investigationId
    IN Block(Shown(invId), inv.title, inv.executionState,
             getInvestigationLink(projectId, IF Truthy(invId) THEN invId ELSE <<"">>))

\* variant: the line about more investigations is always appended
FormatList_AlwaysHints(projectId, data) ==
    IF ~data.hasInvestigations \/ Len(data.investigations) = 0
    THEN <<Text("No investigations found.")>>
    ELSE [k \in DOMAIN data.investigations |->
              ListBlock(projectId, data.investigations[k])]
            \o <<MoreLine(data.nextPageToken)>>

\* the text _listInvestigations makes of res.data, as the list of the
\* paragraphs that blank lines separate
FormatList(projectId, data) ==
    IF ~data.hasInvestigations \/ Len(data.investigations) = 0
    THEN <<Text("No investigations found.")>>
    ELSE [k \in DOMAIN data.investigations |->
              ListBlock(projectId, data.investigations[k])]
            \o (IF Truthy(data.nextPageToken)
                THEN <<MoreLine(data.nextPageToken)>> ELSE <<>>)

\* the value a listing call hands back
ListingOf(paragraphs) ==
    [form |-> "listing", data |-> [text |-> paragraphs], full |-> TRUE]

\* investigations.list returned data: a name whose parsing raises ends in the
\* catch clause, any other answer is formatted and returned
ListOk(s, data) ==
    IF \E k \in DOMAIN data.investigations :
            fromInvestigationName(data.investigations[k].name).kind = "error"
    THEN Throw(s, ApiError("Error listing investigations", 500,
                           Text("No details available.")))
    ELSE Return(s, ListingOf(FormatList(ListProject, data)))

\* variant: the revisionId check is missing
FetchBody_NoRevisionCheck(s) ==
    IF s.investigationId
    THEN GetInvestigationRaw(s, s.investigationId, s.revisionId, "fetch")
    ELSE ListInvestigations(s, s.filter_expression)

\* variant: the revision is dropped, the latest one is fetched
FetchBody_IgnoresRevision(s) ==
    IF s.revisionId /\ ~s.investigationId
    THEN Throw(s, ApiError("revisionId cannot be provided without investigationId.",
                           400, Text("INVALID_ARGUMENT")))
    ELSE IF s.investigationId
    THEN GetInvestigationRaw(s, s.investigationId, FALSE, "fetch")
    ELSE ListInvestigations(s, s.filter_expression)

\* fetchInvestigation after _ensureReady
FetchBody(s) ==
    IF s.revisionId /\ ~s.investigationId
    THEN Throw(s, ApiError("revisionId cannot be provided without investigationId.",
                           400, Text("INVALID_ARGUMENT")))
    ELSE IF s.investigationId
    THEN GetInvestigationRaw(s, s.investigationId, s.revisionId, "fetch")
    ELSE ListInvestigations(s, s.filter_expression)

\* createInvestigation after _ensureReady, up to the create it issues
CreateBody(s) ==
    Issue(s, "create", "create",
          Request("investigations.create", "parent",
                  InvestigationForRequest(s.investigation), FALSE, FALSE))

\* variant: every exception is passed on as it is
RunCatchError_Rethrows(error) == error

\* the catch block of runInvestigation
RunCatchError(error) ==
    IF error.name = "ApiError" THEN error
    ELSE ApiError("Error running investigation", 500, DetailsOf(error))

\* variant: every exception is wrapped, an ApiError too
AddCatchError_AlwaysWraps(error) ==
    ApiError("Error adding an observation to investigation", 500,
             IF error.name = "ApiError" THEN error.details ELSE DetailsOf(error))

\* the catch block of addObservation
AddCatchError(error) ==
    IF error.name = "ApiError" THEN error
    ELSE ApiError("Error adding an observation to investigation", 500, DetailsOf(error))

\* a local transition inside the try of runInvestigation
RunCaught(s) == IF Threw(s) THEN Throw(s, RunCatchError(s.outcome.error)) ELSE s

\* a local transition inside the try of addObservation
AddCaught(s) == IF Threw(s) THEN Throw(s, AddCatchError(s.outcome.error)) ELSE s

\* variant: the run request is sent whether or not the revision name is complete
RunBody_RunsUnnamed(s) ==
    IF PathCtorFails(s.investigationId, s.revisionId)
    THEN Throw(s, InvalidArgumentError("revisionId requires investigationId"))
    ELSE Issue(s, "run", "run",
               Request("revisions.run", "revision", NoData, FALSE, FALSE))

\* runInvestigation after _ensureReady, up to the run request it issues
RunBody(s) ==
    IF PathCtorFails(s.investigationId, s.revisionId)
    THEN Throw(s, InvalidArgumentError("revisionId requires investigationId"))
    ELSE IF GetRevisionNameFails(s.investigationId, s.revisionId)
    THEN Throw(s, RunCatchError(MissingIdentifier("Revision ID are not set")))
    ELSE Issue(s, "run", "run",
               Request("revisions.run", "revision", NoData, FALSE, FALSE))

\* variant: the delay is the backoff variable, without the cap
DelayMs_Uncapped(backoffSeconds, jitter) == backoffSeconds * 1000 + jitter

\* Math.min(backoffSeconds, MAX_BACKOFF_SECONDS) + jitter, in milliseconds
DelayMs(backoffSeconds, jitter) ==
    Min(backoffSeconds, MAX_BACKOFF_SECONDS) * 1000 + jitter

\* variant: the backoff variable itself is capped
NextBackoff_Capped(backoffSeconds) ==
    Min(backoffSeconds * BACKOFF_FACTOR, MAX_BACKOFF_SECONDS)

\* backoffSeconds *= BACKOFF_FACTOR
NextBackoff(backoffSeconds) == backoffSeconds * BACKOFF_FACTOR

\* variant: the loop has no limit of attempts
LoopContinues_Forever(attempt) == TRUE

\* while (attempt < MAX_POLLING_ATTEMPTS)
LoopContinues(attempt) == attempt < MAX_POLLING_ATTEMPTS

\* the status query of the current attempt is issued
IssueStatus(s) ==
    Issue(s, "status", "poll",
          Request("operations.get", "operation", NoData, FALSE, FALSE))

\* variant: the attempt queries at once, without sleeping first
LoopHead_NoSleep(s, jitter) ==
    IF LoopContinues(s.attempt)
    THEN IssueStatus([s EXCEPT !.attempt = @ + 1,
                               !.delayMs = DelayMs(s.backoffSeconds, jitter)])
    ELSE RunCaught(GetInvestigationRaw(s, s.investigationId, FALSE, "timeout"))

\* the head of the polling loop: one more attempt and its sleep, or, after the
\* last attempt, the get whose result the timeout error carries
LoopHead(s, jitter) ==
    IF LoopContinues(s.attempt)
    THEN [s EXCEPT !.attempt = @ + 1,
                   !.delayMs = DelayMs(s.backoffSeconds, jitter),
                   !.pc = "sleep"]
    ELSE RunCaught(GetInvestigationRaw(s, s.investigationId, FALSE, "timeout"))

\* the run request was accepted: let attempt = 0; let backoffSeconds = INITIAL...
RunAccepted(s, jitter) ==
    LoopHead([s EXCEPT !.attempt = 0, !.backoffSeconds = INITIAL_BACKOFF_SECONDS],
             jitter)

\* opRes.data.done is false
PollNotDone(s, jitter) ==
    LoopHead([s EXCEPT !.backoffSeconds = NextBackoff(@)], jitter)

\* variant: the payload embedded in the operation is returned
PollDoneOk_ReturnsEmbedded(s) == Return(s, Raw(OpPayload))

\* variant: a finished operation is polled again
PollDoneOk_PollsAgain(s) == LoopHead(s, 0)

\* opRes.data.done and no opRes.data.error
PollDoneOk(s) ==
    GetInvestigationRaw(s, s.investigationId, s.revisionId, "runDone")

\* variant: the operation's error is wrapped as a generic run failure
PollDoneError_Rewrapped(s, e) ==
    Throw(s, ApiError("Error running investigation", 500, Payload(e)))

\* opRes.data.done and opRes.data.error
PollDoneError(s, e) ==
    Throw(s, RunCatchError(ApiError("Investigation operation failed", 500, Payload(e))))

\* variant: a status query that threw counts as an answer of not done
PollThrew_Retries(s, error) == PollNotDone(s, 0)

\* operations.get threw
PollThrew(s, error) == Throw(s, RunCatchError(error))

\* addObservation after _ensureReady, up to the get it issues
AddBody(s) ==
    AddCaught(GetInvestigationRaw(s, s.investigationId, FALSE, "add"))

\* variant: the record that was fetched is submitted as it is
AddMerge_Unmerged(s, latestRevision) ==
    IF latestRevision = NullData
    THEN Throw(s, AddCatchError(ApiError("Failed to create new revision payload.",
                                         500, Text("PAYLOAD_CREATION_FAILED"))))
    ELSE Issue(s, "createRev", "createRev",
               Request("revisions.create", "investigation",
                       [snapshot |-> latestRevision], FALSE, FALSE))

\* addObservation after the get returned: the merge, then the createRevision
AddMerge(s, latestRevision) ==
    LET newRevisionPayload ==
            getRevisionWithNewObservation(latestRevision, s.observation,
                                          s.relevant_resources) IN
    IF newRevisionPayload = NullData
    THEN Throw(s, AddCatchError(ApiError("Failed to create new revision payload.",
                                         500, Text("PAYLOAD_CREATION_FAILED"))))
    ELSE Issue(s, "createRev", "createRev",
               Request("revisions.create", "investigation",
                       newRevisionPayload, FALSE, FALSE))

\* the code that runs when investigations.get returned res.data = d
GetOk(s, d) ==
    CASE s.cont = "fetch" -> Return(s, Report(d, TRUE))
      [] s.cont = "runDone" -> Return(s, Raw(d))
      [] s.cont = "timeout" ->
            Throw(s, RunCatchError(
                ApiError("Investigation did not complete within the timeout period.",
                         504, CurrentStatus(d))))
      [] s.cont = "add" -> AddMerge(s, d)

\* the client method an invocation runs once _ensureReady has returned
Body(s) ==
    CASE s.op = "fetch" -> FetchBody(s)
      [] s.op = "create" -> CreateBody(s)
      [] s.op = "run" -> RunBody(s)
      [] s.op = "add" -> AddBody(s)

\* variant: add_observation hands its resources to the client unchecked
ToolRejects_AddUnchecked(s) ==
    CASE s.op = "fetch" -> \/ s.revisionId /\ ~s.investigationId
                           \/ s.next_page_token /\ s.investigationId
      [] s.op = "create" -> validateGcpResources(s.relevant_resources) # <<>>
      [] OTHER -> FALSE

\* the checks of a tool handler that precede new GeminiCloudAssistClient()
ToolRejects(s) ==
    CASE s.op = "fetch" -> \/ s.revisionId /\ ~s.investigationId
                           \/ s.next_page_token /\ s.investigationId
      [] s.op \in {"create", "add"} -> validateGcpResources(s.relevant_resources) # <<>>
      [] OTHER -> FALSE

ToolError(s) ==
    CASE s.op = "fetch" /\ s.revisionId /\ ~s.investigationId ->
            ApiError("The 'revisionId' parameter cannot be used without 'investigationId'.",
                     400, Text("INVALID_ARGUMENT"))
      [] s.op = "fetch" /\ ~(s.revisionId /\ ~s.investigationId) ->
            ApiError("The 'next_page_token' parameter cannot be used with 'investigationId'.",
                     400, Text("INVALID_ARGUMENT"))
      [] OTHER ->
            [ApiError("Error: Invalid resource format for the following resources:",
                      400, Text("INVALID_ARGUMENT"))
                EXCEPT !.args = validateGcpResources(s.relevant_resources)]

\* ------------------------------------------------------------------ actions

Set(p, s) == call' = [call EXCEPT ![p] = s]

\* variant: a client whose initialization was attempted and is not
\* initialized fails the operation without a new attempt
Invoke_GivesUp(p) ==
    LET s == call[p]
        c == ClientOf(s, p) IN
    /\ s.pc = "idle"
    /\ IF s.via = "tool" /\ ToolRejects(s)
       THEN /\ Set(p, Throw(s, ToolError(s)))
            /\ UNCHANGED clientVars
       ELSE IF isInitialized[c]
       THEN /\ licenseValidated' = [licenseValidated EXCEPT ![c] = TRUE]
            /\ Set(p, Body(s))
            /\ UNCHANGED <<isInitialized, geminiassist, authCalls, discoverCalls>>
       ELSE IF authCalls[c] > 0
       THEN /\ Set(p, Throw(s, ApiError("Authentication failed.", 401,
                                        Text("AUTH_FAILED"))))
            /\ UNCHANGED clientVars
       ELSE /\ authCalls' = [authCalls EXCEPT ![c] = @ + 1]
            /\ Set(p, [s EXCEPT !.pc = "auth"])
            /\ UNCHANGED <<isInitialized, licenseValidated, geminiassist, discoverCalls>>
    /\ UNCHANGED <<maxPending, remote>>

\* An invocation starts: the tool handler's checks, then the client method up
\* to its first remote call (_ensureReady: getAccessToken unless initialized).
Invoke(p) ==
    LET s == call[p]
        c == ClientOf(s, p) IN
    /\ s.pc = "idle"
    /\ IF s.via = "tool" /\ ToolRejects(s)
       THEN /\ Set(p, Throw(s, ToolError(s)))
            /\ UNCHANGED clientVars
       ELSE IF isInitialized[c]
       THEN /\ licenseValidated' = [licenseValidated EXCEPT ![c] = TRUE]
            /\ Set(p, Body(s))
            /\ UNCHANGED <<isInitialized, geminiassist, authCalls, discoverCalls>>
       ELSE /\ authCalls' = [authCalls EXCEPT ![c] = @ + 1]
            /\ Set(p, [s EXCEPT !.pc = "auth"])
            /\ UNCHANGED <<isInitialized, licenseValidated, geminiassist, discoverCalls>>
    /\ UNCHANGED <<maxPending, remote>>

\* variant: the client is marked initialized once authentication succeeded
AuthReturn_MarksReady(p) ==
    LET s == call[p]
        c == ClientOf(s, p) IN
    /\ s.pc = "auth"
    /\ \/ /\ discoverCalls' = [discoverCalls EXCEPT ![c] = @ + 1]
          /\ isInitialized' = [isInitialized EXCEPT ![c] = TRUE]
          /\ Set(p, [s EXCEPT !.pc = "discover"])
          /\ UNCHANGED <<licenseValidated, geminiassist, authCalls>>
       \/ /\ isInitialized' = [isInitialized EXCEPT ![c] = FALSE]
          /\ Set(p, Throw(s, ApiError("Authentication failed.", 401, Text("AUTH_FAILED"))))
          /\ UNCHANGED <<licenseValidated, geminiassist, authCalls, discoverCalls>>
    /\ UNCHANGED <<maxPending, remote>>

\* auth.getAccessToken() returned or threw (_validateAuth inside _ensureReady)
AuthReturn(p) ==
    LET s == call[p]
        c == ClientOf(s, p) IN
    /\ s.pc = "auth"
    /\ \/ /\ discoverCalls' = [discoverCalls EXCEPT ![c] = @ + 1]
          /\ Set(p, [s EXCEPT !.pc = "discover"])
          /\ UNCHANGED <<isInitialized, licenseValidated, geminiassist, authCalls>>
       \/ /\ isInitialized' = [isInitialized EXCEPT ![c] = FALSE]
          /\ Set(p, Throw(s, ApiError("Authentication failed.", 401, Text("AUTH_FAILED"))))
          /\ UNCHANGED <<licenseValidated, geminiassist, authCalls, discoverCalls>>
    /\ UNCHANGED <<maxPending, remote>>

\* google.discoverAPI() returned or threw; on success _ensureReady finishes and
\* the client method runs up to its first remote call
DiscoverReturn(p) ==
    LET s == call[p]
        c == ClientOf(s, p) IN
    /\ s.pc = "discover"
    /\ \/ /\ geminiassist' = [geminiassist EXCEPT ![c] = p]
          /\ isInitialized' = [isInitialized EXCEPT ![c] = TRUE]
          /\ licenseValidated' = [licenseValidated EXCEPT ![c] = TRUE]
          /\ Set(p, Body(s))
       \/ /\ isInitialized' = [isInitialized EXCEPT ![c] = FALSE]
          /\ Set(p, Throw(s, ApiError("Failed to discover API.", 500,
                                      Text("API_DISCOVERY_FAILED"))))
          /\ UNCHANGED <<licenseValidated, geminiassist>>
    /\ UNCHANGED <<authCalls, discoverCalls, maxPending, remote>>

\* investigations.list returned or threw
ListReturn(p) ==
    LET s == call[p] IN
    /\ s.pc = "list"
    /\ \/ \E data \in ListAnswers : Set(p, ListOk([s EXCEPT !.listed = data], data))
       \/ \E error \in Thrown :
            Set(p, Throw(s, ApiError("Error listing investigations", 500,
                                     DetailsOf(error))))
    /\ UNCHANGED <<clientVars, maxPending, remote>>

\* investigations.create returned or threw
CreateReturn(p) ==
    LET s == call[p] IN
    /\ s.pc = "create"
    /\ \/ \E d \in Snapshots : Set(p, Return(s, Raw(d)))
       \/ \E error \in Thrown :
            Set(p, Throw(s, ApiError("Error creating investigation", 500,
                                     DetailsOf(error))))
    /\ UNCHANGED <<clientVars, maxPending, remote>>

\* revisions.run returned or threw
RunReturn(p) ==
    LET s == call[p] IN
    /\ s.pc = "run"
    /\ \/ \E jitter \in Jitters : Set(p, RunAccepted(s, jitter))
       \/ \E error \in Thrown : Set(p, Throw(s, RunCatchError(error)))
    /\ UNCHANGED <<clientVars, maxPending, remote>>

\* the timer of the current attempt fired
SleepDone(p) ==
    LET s == call[p] IN
    /\ s.pc = "sleep"
    /\ Set(p, IssueStatus(Log(s, "sleep")))
    /\ UNCHANGED <<clientVars, maxPending, remote>>

\* operations.get returned or threw; the answer is one of: still running, done,
\* done with an error payload, an exception of the transport
PollReturn(p) ==
    LET s == call[p] IN
    /\ s.pc = "poll"
    /\ \/ /\ s.attempt <= maxPending
          /\ \E jitter \in Jitters : Set(p, PollNotDone(Log(s, "notdone"), jitter))
       \/ Set(p, PollDoneOk(Log(s, "done")))
       \/ \E e \in RemoteErrors :
            Set(p, PollDoneError([Log(s, "doneErr") EXCEPT !.opError = e], e))
       \/ \E error \in Thrown : Set(p, PollThrew(Log(s, "statusThrew"), error))
    /\ UNCHANGED <<clientVars, maxPending, remote>>

\* what investigations.get may answer: on the investigation name the latest
\* revision, on a revision name the record of that revision; res.data may be absent
GetAnswers(s) ==
    IF s.request.target = "investigation" THEN {remote, NullData}
    ELSE Snapshots \cup {NullData}

\* investigations.get returned or threw
GetReturn(p) ==
    LET s == call[p] IN
    /\ s.pc = "get"
    /\ \/ \E d \in GetAnswers(s) :
            Set(p, GetOk([Log(s, "got") EXCEPT !.got = d], d))
       \/ \E error \in Thrown : Set(p, GetFailed(Log(s, "getThrew"), error))
    /\ UNCHANGED <<clientVars, maxPending, remote>>

\* revisions.create returned or threw; a revision that was created is the
\* latest revision of the investigation from then on
CreateRevReturn(p) ==
    LET s == call[p] IN
    /\ s.pc = "createRev"
    /\ \/ /\ remote' = s.request.body.snapshot
          /\ Set(p, Return(s, Raw(s.request.body.snapshot)))
       \/ /\ \E error \in Thrown : Set(p, Throw(s, AddCatchError(error)))
          /\ UNCHANGED remote
    /\ UNCHANGED <<clientVars, maxPending>>

Next ==
    \E p \in Procs :
        \/ Invoke(p)
        \/ AuthReturn(p)
        \/ DiscoverReturn(p)
        \/ ListReturn(p)
        \/ CreateReturn(p)
        \/ RunReturn(p)
        \/ SleepDone(p)
        \/ PollReturn(p)
        \/ GetReturn(p)
        \/ CreateRevReturn(p)

\* ------------------------------------------------------------ initial states

\* the record of an invocation that has not started; the parameters only one
\* operation takes are set by the operators below
NewCall(op, via, investigationId, revisionId, next_page_token, relevant_resources) ==
    [pc |-> "idle", op |-> op, via |-> via,
     investigationId |-> investigationId, revisionId |-> revisionId,
     next_page_token |-> next_page_token, relevant_resources |-> relevant_resources,
     filter_expression |-> FALSE, observation |-> 0, investigation |-> NoData,
     attempt |-> 0, backoffSeconds |-> 0, delayMs |-> 0,
     cont |-> "", opError |-> "", got |-> NoData, listed |-> NoData,
     request |-> NoRequest,
     outcome |-> [status |-> "none", error |-> NoError, value |-> NoValue],
     result |-> NoResult,
     log |-> <<>>]

\* the resource lists a caller may hand in
ResourceLists ==
    {<<>>, <<GcpResource(1)>>, <<BadResource(1)>>,
     <<GcpResource(0), BadResource(1), GcpResource(1), BadResource(2)>>}

\* a payload with one observation whose time properties are as given
PayloadWith(timeRanges, timeIntervals) ==
    Investigation("new",
        [id \in {PRIMARY_USER_OBSERVATION_ID} |->
            Observation(id, "OBSERVER_TYPE_USER", <<0>>, <<>>, timeRanges, timeIntervals)])

\* the payloads createInvestigation may be called with
Payloads ==
    {PayloadWith(r, i) : r \in {Absent, <<"start">>}, i \in {Absent, <<"other">>}}
        \cup {WithoutObservations("new")}

FetchCalls(via) ==
    {[NewCall("fetch", via, i, r, t, <<>>) EXCEPT !.filter_expression = f] :
        i \in BOOLEAN, r \in BOOLEAN, t \in BOOLEAN, f \in BOOLEAN}

\* the create_investigation handler builds the payload; a direct caller brings it
CreateCalls(via) ==
    IF via = "tool"
    THEN {[NewCall("create", via, FALSE, FALSE, FALSE, res)
              EXCEPT !.investigation = createInitialInvestigation(res)] :
            res \in ResourceLists}
    ELSE {[NewCall("create", via, FALSE, FALSE, FALSE, <<>>)
              EXCEPT !.investigation = payload] : payload \in Payloads}

RunCalls(via) ==
    {NewCall("run", via, i, r, FALSE, <<>>) : i \in BOOLEAN, r \in BOOLEAN}

AddCalls(via) ==
    {[NewCall("add", via, i, FALSE, FALSE, res) EXCEPT !.observation = 1] :
        i \in BOOLEAN, res \in ResourceLists}

\* the requests an invocation can be made with
CallsVia(via) == FetchCalls(via) \cup CreateCalls(via) \cup RunCalls(via) \cup AddCalls(via)

Calls(vias) == UNION {CallsVia(via) : via \in vias}

Off == [NewCall("fetch", "client", FALSE, FALSE, FALSE, <<>>) EXCEPT !.pc = "off"]

\* the state of every client right after its constructor
InitClients ==
    /\ isInitialized = [c \in Clients |-> FALSE]
    /\ licenseValidated = [c \in Clients |-> FALSE]
    /\ geminiassist = [c \in Clients |-> 0]
    /\ authCalls = [c \in Clients |-> 0]
    /\ discoverCalls = [c \in Clients |-> 0]

\* one invocation, through a tool or directly on a fresh client
Init ==
    /\ InitClients
    /\ maxPending = MAX_POLLING_ATTEMPTS
    /\ remote \in Snapshots
    /\ \E s \in Calls({"tool", "client"}) :
            call = [p \in Procs |-> IF p = 1 THEN s ELSE Off]

Spec == Init /\ [][Next]_vars

\* every remote call and every sleep returns: a continuation that is ready
\* is run by the event loop
Returns ==
    \A p \in Procs :
        /\ WF_vars(AuthReturn(p)) /\ WF_vars(DiscoverReturn(p))
        /\ WF_vars(ListReturn(p)) /\ WF_vars(CreateReturn(p))
        /\ WF_vars(RunReturn(p)) /\ WF_vars(SleepDone(p))
        /\ WF_vars(PollReturn(p)) /\ WF_vars(GetReturn(p))
        /\ WF_vars(CreateRevReturn(p))

\* one invocation whose remote calls and sleeps all return
SpecReturns == Init /\ [][Next]_vars /\ Returns

\* a request the tool schemas and handlers let through
WellFormed(s) ==
    /\ ~s.next_page_token
    /\ s.op \in {"run", "add"} => s.investigationId
    /\ s.op = "run" => s.revisionId
    /\ s.op = "fetch" /\ s.revisionId => s.investigationId
    /\ validateGcpResources(s.relevant_resources) = <<>>

\* the requests of the concurrent invocations: invocation p submits the
\* observation text p and the resource p
ConcCalls(p) ==
    {s \in FetchCalls("client") : WellFormed(s) /\ ~s.filter_expression}
        \cup {[NewCall("create", "client", FALSE, FALSE, FALSE, <<>>)
                  EXCEPT !.investigation = PayloadWith(<<"start">>, Absent)]}
        \cup {NewCall("run", "client", TRUE, TRUE, FALSE, <<>>)}
        \cup {[NewCall("add", "client", TRUE, FALSE, FALSE, <<GcpResource(p)>>)
                  EXCEPT !.observation = p]}

\* NumOps well-formed invocations made directly on one client, in any interleaving
InitConc ==
    /\ InitClients
    /\ maxPending = ConcPending
    /\ remote = SnapA
    /\ call \in [Procs -> UNION {ConcCalls(p) : p \in Procs}]
    /\ \A p \in Procs : call[p] \in ConcCalls(p)

SpecConc == InitConc /\ [][Next]_vars

\* ------------------------------------------------- the life of one client
\* NumOps operations on one client object, each started at any moment: one
\* after the other has ended, or while another awaits a call.

\* the operations: the fetch of an investigation or of one of its revisions,
\* and the creation of an investigation
ClientCalls ==
    {s \in FetchCalls("client") :
        WellFormed(s) /\ s.investigationId /\ ~s.filter_expression}
        \cup {[NewCall("create", "client", FALSE, FALSE, FALSE, <<>>)
                  EXCEPT !.investigation = PayloadWith(<<"start">>, Absent)]}

InitClient ==
    /\ InitClients
    /\ maxPending = ConcPending
    /\ remote = SnapA
    /\ call \in [Procs -> ClientCalls]

NextClient ==
    \E p \in Procs :
        \/ Invoke(p)
        \/ AuthReturn(p)
        \/ DiscoverReturn(p)
        \/ CreateReturn(p)
        \/ GetReturn(p)

SpecClient == InitClient /\ [][NextClient]_vars

\* no operation on the client is under way
Quiet == \A q \in Procs : call[q].pc \in {"idle", "done"}

\* the operations are awaited: one starts when none is under way
NextInTurn ==
    \E p \in Procs :
        \/ Quiet /\ Invoke(p)
        \/ AuthReturn(p)
        \/ DiscoverReturn(p)
        \/ CreateReturn(p)
        \/ GetReturn(p)

SpecInTurn == InitClient /\ [][NextInTurn]_vars

\* ---------------------------------------------------------------- the merge
\* getRevisionWithNewObservation applied to a record again and again, each
\* time to the snapshot of the payload before.

ObservationTexts == {1, 2}

\* the records a merge starts from
MergeInputs ==
    {SnapA, SnapB, Investigation("C", <<>>),
     Investigation("D", [id \in {PROJECT_OBSERVATION_ID} |-> UserProject]),
     Investigation("E",
        WithObservation(SnapA.observations, "analysis.1",
            Observation("analysis.1", "OBSERVER_TYPE_SYSTEM", <<7>>, <<>>,
                        Absent, Absent)))}

\* the resource lists a merge is given: those of a caller, and lists that
\* repeat a resource
MergeResourceLists ==
    ResourceLists \cup {<<GcpResource(1), GcpResource(1)>>,
                        <<GcpResource(2), GcpResource(0), GcpResource(2)>>}

PrimaryOf(investigation) == investigation.observations[PRIMARY_USER_OBSERVATION_ID]

\* what the caller of the merges holds: the record it started from, the
\* arguments and the result of the last call, and the texts submitted so far
MergeCall(original) ==
    [original |-> original, latestRevision |-> NoData, observation |-> 0,
     relevant_resources |-> <<>>, payload |-> NoData, texts |-> <<>>]

InitMerge ==
    /\ InitClients
    /\ maxPending = MAX_POLLING_ATTEMPTS
    /\ remote \in MergeInputs \cup {NullData}
    /\ call = [p \in Procs |-> IF p = 1 THEN MergeCall(remote) ELSE Off]

\* one call of getRevisionWithNewObservation on the latest record; the
\* snapshot of the payload it returns is the latest record from then on
Merge ==
    /\ Len(call[1].texts) < MaxMerges
    /\ \E observation \in ObservationTexts, relevant_resources \in MergeResourceLists :
          LET payload == getRevisionWithNewObservation(remote, observation,
                                                       relevant_resources)
          IN /\ remote' = IF payload = NullData THEN remote ELSE payload.snapshot
             /\ call' = [call EXCEPT ![1] =
                          [@ EXCEPT !.latestRevision = remote,
                                    !.observation = observation,
                                    !.relevant_resources = relevant_resources,
                                    !.payload = payload,
                                    !.texts = Append(@, observation)]]
    /\ UNCHANGED <<clientVars, maxPending>>

SpecMerge == InitMerge /\ [][Merge]_vars

\* ------------------------------------------------------ the merge on the heap
\* The records of a merge as the objects they are: a record is an object that
\* refers to its observations object, which refers to the observation objects,
\* each of which refers to the array of its resources.  An address is an index
\* into heap; 0 is null (or a property that is not set).

\* the members of a finite set in a fixed order
SetToSeq(S) ==
    CHOOSE seq \in [1..Cardinality(S) -> S] :
        \A i, j \in 1..Cardinality(S) : seq[i] = seq[j] => i = j

\* JSON.parse of the record v: fresh objects at the addresses base + 1, ...;
\* the record itself is at base + 1
HeapCells(v, base) ==
    IF ~v.hasObservations
    THEN <<[type |-> "investigation", title |-> v.title, observations |-> 0]>>
    ELSE LET ids == SetToSeq(DOMAIN v.observations)
             n == Cardinality(DOMAIN v.observations)
         IN [i \in 1..(2 + 2 * n) |->
              IF i = 1
              THEN [type |-> "investigation", title |-> v.title,
                    observations |-> base + 2]
              ELSE IF i = 2
              THEN [type |-> "observations",
                    entries |-> [id \in DOMAIN v.observations |->
                        base + 1 + 2 * (CHOOSE k \in 1..n : ids[k] = id)]]
              ELSE LET o == v.observations[ids[(i - 1) \div 2]] IN
                   IF i % 2 = 1
                   THEN [type |-> "observation", id |-> o.id,
                         observerType |-> o.observerType, text |-> o.text,
                         relevantResources |-> base + i + 1,
                         timeRanges |-> o.timeRanges,
                         timeIntervals |-> o.timeIntervals]
                   ELSE [type |-> "array", items |-> o.relevantResources]]

\* the observation the object at address a holds
ObservationAt(heap, a) ==
    Observation(heap[a].id, heap[a].observerType, heap[a].text,
                heap[heap[a].relevantResources].items,
                heap[a].timeRanges, heap[a].timeIntervals)

\* JSON.stringify of the record at address a: the value it holds
ValueAt(heap, a) ==
    IF a = 0 THEN NullData
    ELSE IF heap[a].observations = 0 THEN WithoutObservations(heap[a].title)
    ELSE Investigation(heap[a].title,
            [id \in DOMAIN heap[heap[a].observations].entries |->
                ObservationAt(heap, heap[heap[a].observations].entries[id])])

\* the objects that can be reached from the record at address a
ReachFrom(heap, a) ==
    IF a = 0 THEN {}
    ELSE IF heap[a].observations = 0 THEN {a}
    ELSE LET entries == heap[heap[a].observations].entries
             os == {entries[id] : id \in DOMAIN entries}
         IN {a, heap[a].observations} \cup os
                \cup {heap[o].relevantResources : o \in os}

\* variant: the copy is a new record object that shares the observations
DeepCopy_Shallow(heap, a) ==
    [heap |-> Append(heap, heap[a]), addr |-> Len(heap) + 1]

\* JSON.parse(JSON.stringify(record)): the heap with the copy, and its address
DeepCopy(heap, a) ==
    [heap |-> heap \o HeapCells(ValueAt(heap, a), Len(heap)), addr |-> Len(heap) + 1]

\* the copy given an observations object when it has none
WithObservationsObject(h, top) ==
    IF h[top].observations # 0 THEN h
    ELSE Append([h EXCEPT ![top].observations = Len(h) + 1],
                [type |-> "observations", entries |-> <<>>])

\* the text appended and the resources merged in the primary observation of
\* the copy, which is created when the copy has none
WithPrimaryUpdated(h, top, observation, relevant_resources) ==
    LET map == h[top].observations
        entries == h[map].entries
    IN IF PRIMARY_USER_OBSERVATION_ID \in DOMAIN entries
       THEN LET o == entries[PRIMARY_USER_OBSERVATION_ID] IN
            [h EXCEPT ![o].text = Append(@, observation),
                      ![h[o].relevantResources].items =
                          MergeResources(@, relevant_resources)]
       ELSE LET created == NewPrimary(observation, relevant_resources) IN
            [h EXCEPT ![map].entries =
                          WithObservation(@, PRIMARY_USER_OBSERVATION_ID, Len(h) + 1)]
                \o <<[type |-> "observation", id |-> created.id,
                      observerType |-> created.observerType, text |-> created.text,
                      relevantResources |-> Len(h) + 2,
                      timeRanges |-> Absent, timeIntervals |-> Absent],
                     [type |-> "array", items |-> created.relevantResources]>>

\* getRevisionWithNewObservation on objects: null for null, else the copy of
\* the record is changed and returned in a new {snapshot} object
HeapMerge(heap, a, observation, relevant_resources) ==
    IF a = 0 THEN [heap |-> heap, result |-> 0]
    ELSE LET copy == DeepCopy(heap, a)
             h == WithPrimaryUpdated(WithObservationsObject(copy.heap, copy.addr),
                                     copy.addr, observation, relevant_resources)
         IN [heap |-> Append(h, [type |-> "payload", snapshot |-> copy.addr]),
             result |-> Len(h) + 1]

\* what the caller holds: the heap, the records it has (held), and of its
\* last step the record it passed (arg), the payload it got (result) and the
\* values the two had before the step
HeapCall(heap, input) ==
    [heap |-> heap, held |-> {input}, step |-> "none", arg |-> 0, result |-> 0,
     argBefore |-> NoData, resultBefore |-> NoData,
     observation |-> 0, relevant_resources |-> <<>>, n |-> 0]

InitHeap ==
    /\ InitClients
    /\ maxPending = MAX_POLLING_ATTEMPTS
    /\ remote = NullData
    /\ \E v \in MergeInputs \cup {NullData} :
          call = [p \in Procs |->
                    IF p # 1 THEN Off
                    ELSE IF v = NullData THEN HeapCall(<<>>, 0)
                    ELSE HeapCall(HeapCells(v, 0), 1)]

SnapshotOf(m) == m.heap[m.result].snapshot

\* the caller passes a record it holds to getRevisionWithNewObservation
MergeOnHeap ==
    LET m == call[1] IN
    /\ m.n < MaxHeapSteps
    /\ \E a \in m.held, observation \in ObservationTexts,
          relevant_resources \in ResourceLists :
          LET r == HeapMerge(m.heap, a, observation, relevant_resources) IN
          call' = [call EXCEPT ![1] =
                      [m EXCEPT !.heap = r.heap,
                                !.held = IF r.result = 0 THEN @
                                         ELSE @ \cup {r.heap[r.result].snapshot},
                                !.step = "merge", !.arg = a, !.result = r.result,
                                !.argBefore = ValueAt(m.heap, a),
                                !.resultBefore = NoData,
                                !.observation = observation,
                                !.relevant_resources = relevant_resources,
                                !.n = @ + 1]]
    /\ UNCHANGED <<clientVars, maxPending, remote>>

\* an assignment to the object at address a: a new title, or a resource
\* pushed onto the array of its first observation
Mutated(heap, a, how) ==
    IF how = "title" \/ heap[a].observations = 0
          \/ DOMAIN heap[heap[a].observations].entries = {}
    THEN [heap EXCEPT ![a].title = @ \o "!"]
    ELSE LET entries == heap[heap[a].observations].entries
             o == entries[CHOOSE id \in DOMAIN entries : TRUE]
         IN [heap EXCEPT ![heap[o].relevantResources].items =
                            Append(@, BadResource(9))]

\* after a merge the caller changes the record it passed, or the snapshot it
\* got back
MutateRecord ==
    LET m == call[1] IN
    /\ m.n < MaxHeapSteps
    /\ m.step = "merge" /\ m.result # 0
    /\ \E side \in {"arg", "result"}, how \in {"title", "resources"} :
          call' = [call EXCEPT ![1] =
                      [m EXCEPT !.heap = Mutated(@, IF side = "arg" THEN m.arg
                                                    ELSE SnapshotOf(m), how),
                                !.step = IF side = "arg" THEN "mutateArg"
                                         ELSE "mutateResult",
                                !.argBefore = ValueAt(m.heap, m.arg),
                                !.resultBefore = ValueAt(m.heap, SnapshotOf(m)),
                                !.n = @ + 1]]
    /\ UNCHANGED <<clientVars, maxPending, remote>>

NextHeap == MergeOnHeap \/ MutateRecord

SpecHeap == InitHeap /\ [][NextHeap]_vars

\* ------------------------------------------------- the payload of a create
\* createInvestigation on objects: the payload its caller passes, and the
\* body it builds for the request.

\* the payloads a caller passes: no observations, or one or two of them, each
\* with or without timeRanges, timeIntervals and a resource
CreateObservations(id) ==
    {Observation(id, "OBSERVER_TYPE_USER", <<0>>, res, r, i) :
        res \in {<<>>, <<GcpResource(1)>>},
        r \in {Absent, <<"start">>}, i \in {Absent, <<"other">>}}

CreateInputs ==
    {WithoutObservations("new")}
        \cup {Investigation("new", [id \in {PRIMARY_USER_OBSERVATION_ID} |-> o]) :
                o \in CreateObservations(PRIMARY_USER_OBSERVATION_ID)}
        \cup {Investigation("new",
                WithObservation([id \in {PRIMARY_USER_OBSERVATION_ID} |-> o],
                                PROJECT_OBSERVATION_ID, q)) :
                o \in CreateObservations(PRIMARY_USER_OBSERVATION_ID),
                q \in CreateObservations(PROJECT_OBSERVATION_ID)}

\* variant: the request body is the payload itself
CopyForRequest_InPlace(heap, a) == [heap |-> heap, addr |-> a]

\* const investigationForRequest = JSON.parse(JSON.stringify(investigation))
CopyForRequest(heap, a) == DeepCopy(heap, a)

\* the loop over investigationForRequest.observations: an observation object
\* with timeRanges and without timeIntervals gets timeIntervals and loses
\* timeRanges
RewriteOnHeap(h, top) ==
    IF h[top].observations = 0 THEN h
    ELSE LET entries == h[h[top].observations].entries
             os == {entries[id] : id \in DOMAIN entries}
         IN [i \in DOMAIN h |->
              IF i \in os /\ Truthy(h[i].timeRanges) /\ ~Truthy(h[i].timeIntervals)
              THEN [h[i] EXCEPT !.timeIntervals = h[i].timeRanges,
                                !.timeRanges = Absent]
              ELSE h[i]]

\* createInvestigation up to its request: the heap, and the address of the
\* request body
BodyOnHeap(heap, a) ==
    LET copy == CopyForRequest(heap, a) IN
    [heap |-> RewriteOnHeap(copy.heap, copy.addr), addr |-> copy.addr]

\* what the caller holds: the heap, the payload it passes (arg) and the value
\* the payload had before the call; body is the request body of the call
CreateHeapCall(heap, step, arg, argBefore, body, n) ==
    [heap |-> heap, step |-> step, arg |-> arg, argBefore |-> argBefore,
     body |-> body, n |-> n]

InitCreateHeap ==
    /\ InitClients
    /\ maxPending = MAX_POLLING_ATTEMPTS
    /\ remote = NullData
    /\ \E v \in CreateInputs :
          call = [p \in Procs |->
                    IF p # 1 THEN Off
                    ELSE CreateHeapCall(HeapCells(v, 0), "none", 1, NoData, 0, 0)]

\* the caller passes its payload to createInvestigation, which returns what
\* investigations.create answered or throws
CreateOnHeap ==
    LET m == call[1] IN
    /\ m.n < MaxHeapSteps
    /\ \E step \in {"created", "failed"} :
          LET r == BodyOnHeap(m.heap, m.arg) IN
          call' = [call EXCEPT ![1] =
                      CreateHeapCall(r.heap, step, m.arg, ValueAt(m.heap, m.arg),
                                     r.addr, m.n + 1)]
    /\ UNCHANGED <<clientVars, maxPending, remote>>

SpecCreateHeap == InitCreateHeap /\ [][CreateOnHeap]_vars

\* ---------------------------------------- resource names: build and parse
\* what the caller of the path functions holds after a step
PathCall(step, path, constructed, name, parsed, rebuilt) ==
    [step |-> step, path |-> path, constructed |-> constructed, name |-> name,
     parsed |-> parsed, rebuilt |-> rebuilt]

InitPath ==
    /\ InitClients
    /\ maxPending = MAX_POLLING_ATTEMPTS
    /\ remote = NullData
    /\ call = [p \in Procs |->
                IF p = 1 THEN PathCall("none", NoPath, Raised(NoError), Raised(NoError),
                                       ParsedNull, Raised(NoError))
                ELSE Off]

\* a path is constructed from identifiers, its most qualified name is built
\* and parsed, and the name of the parsed path is built
BuildAndParse ==
    /\ \E projectId \in PathIds, investigationId \in PathIds \cup {Absent},
          revisionId \in PathIds \cup {Absent} :
          LET given == PathOf(projectId, investigationId, revisionId)
              constructed == InvestigationPath(projectId, investigationId, revisionId)
              name == IF constructed.ok THEN FullName(constructed.path)
                      ELSE Raised(constructed.error)
              parsed == IF name.ok THEN fromInvestigationName(name.value)
                        ELSE ParsedNull
              rebuilt == IF parsed.kind = "path" THEN FullName(parsed.path)
                         ELSE Raised(parsed.error)
          IN call' = [call EXCEPT ![1] =
                        PathCall("built", given,
                                 IF constructed.ok THEN Returned(constructed.path)
                                 ELSE Raised(constructed.error),
                                 name, parsed, rebuilt)]
    /\ UNCHANGED <<clientVars, maxPending, remote>>

\* a string is parsed
ParseName ==
    /\ \E name \in NameSamples :
          call' = [call EXCEPT ![1] =
                      PathCall("parsed", NoPath, Raised(NoError), Returned(name),
                               fromInvestigationName(name), Raised(NoError))]
    /\ UNCHANGED <<clientVars, maxPending, remote>>

NextPath == BuildAndParse \/ ParseName

SpecPath == InitPath /\ [][NextPath]_vars

\* ------------------------------------------------- validation of resources
\* validateGcpResources applied to lists of entries of every kind the tests
\* pass: well-formed URIs, strings of another shape, the empty string, and
\* values that are not strings.

\* an entry that is not a string, or the empty string
OddEntry(form) == [form |-> form, n |-> 0]

ValidateEntries ==
    {GcpResource(0), GcpResource(1), BadResource(1), OddEntry("empty"),
     OddEntry("null"), OddEntry("undefined"), OddEntry("number"), OddEntry("object")}

ValidateInputs == UNION {[1..n -> ValidateEntries] : n \in 0..MaxEntries}

ValidateCall(step, resources, invalid) ==
    [step |-> step, resources |-> resources, invalid |-> invalid]

InitValidate ==
    /\ InitClients
    /\ maxPending = MAX_POLLING_ATTEMPTS
    /\ remote = NullData
    /\ call = [p \in Procs |-> IF p = 1 THEN ValidateCall("none", <<>>, <<>>) ELSE Off]

Validate ==
    /\ call[1].step = "none"
    /\ \E resources \in ValidateInputs :
          call' = [call EXCEPT ![1] =
                      ValidateCall("validated", resources,
                                   validateGcpResources(resources))]
    /\ UNCHANGED <<clientVars, maxPending, remote>>

SpecValidate == InitValidate /\ [][Validate]_vars

\* ------------------------------------------------------- the waits of a run
\* The polling loop of runInvestigation when no status query answers done:
\* the sleeps it makes, attempt after attempt, and their sum.

\* the locals of the loop, and the time slept so far: in all (waitedMs) and
\* without the jitter (baseMs)
BackoffCall(attempt, backoffSeconds, delayMs, waitedMs, baseMs) ==
    [step |-> "backoff", attempt |-> attempt, backoffSeconds |-> backoffSeconds,
     delayMs |-> delayMs, waitedMs |-> waitedMs, baseMs |-> baseMs]

InitBackoff ==
    /\ InitClients
    /\ maxPending = MAX_POLLING_ATTEMPTS
    /\ remote = NullData
    /\ call = [p \in Procs |->
                  IF p = 1 THEN BackoffCall(0, INITIAL_BACKOFF_SECONDS, 0, 0, 0)
                  ELSE Off]

\* one iteration of the loop whose status query answers not done
SleepAndPoll ==
    LET s == call[1] IN
    /\ LoopContinues(s.attempt)
    /\ \E jitter \in Jitters :
          LET delayMs == DelayMs(s.backoffSeconds, jitter) IN
          call' = [call EXCEPT ![1] =
                      BackoffCall(s.attempt + 1, NextBackoff(s.backoffSeconds),
                                  delayMs, s.waitedMs + delayMs,
                                  s.baseMs + (delayMs - jitter))]
    /\ UNCHANGED <<clientVars, maxPending, remote>>

SpecBackoff == InitBackoff /\ [][SleepAndPoll]_vars

\* ----------------------------------------------------------- the tool wrapper
\* toolWrapper applied to a callback that settles in any way a callback can.

\* what a callback may return or throw
CallbackOutcomes ==
    {[status |-> "ok", error |-> NoError, value |-> v] :
        v \in {Listing, Report(SnapA, TRUE), Report(SnapB, FALSE)}}
    \cup {[status |-> "err", error |-> e, value |-> NoValue] :
            e \in {ApiError("Authentication failed.", 401, Text("AUTH_FAILED")),
                   ApiError("Could not find Investigation ID", 404, Payload("errX")),
                   ApiError("Investigation operation failed", 500, Payload("errY"))}
                  \cup Thrown}

InitWrapper ==
    /\ InitClients
    /\ maxPending = MAX_POLLING_ATTEMPTS
    /\ remote \in Snapshots
    /\ \E s \in Calls({"tool"}) :
            call = [p \in Procs |-> IF p = 1 THEN s ELSE Off]

CallbackSettles(p) ==
    LET s == call[p] IN
    /\ s.pc = "idle"
    /\ \E o \in CallbackOutcomes : Set(p, Settle(s, o))
    /\ UNCHANGED <<clientVars, maxPending, remote>>

NextWrapper == \E p \in Procs : CallbackSettles(p)

SpecWrapper == InitWrapper /\ [][NextWrapper]_vars

\* ------------------------------------------------------------------ claims

RECURSIVE Pow(_, _)
Pow(b, n) == IF n = 0 THEN 1 ELSE b * Pow(b, n - 1)

Count(log, e) == Cardinality({i \in DOMAIN log : log[i] = e})
Has(log, e) == \E i \in DOMAIN log : log[i] = e
Gets(log) == Count(log, "get:revision") + Count(log, "get:investigation")
Answers(log) ==
    Count(log, "notdone") + Count(log, "done") + Count(log, "doneErr")
        + Count(log, "statusThrew")
Finished(s) == s.pc = "done"
Succeeded(s) == s.pc = "done" /\ s.outcome.status = "ok"
Failed(s) == s.pc = "done" /\ s.outcome.status = "err"
InvalidArgument(s) ==
    /\ Failed(s)
    /\ s.outcome.error.name = "ApiError"
    /\ s.outcome.error.code = 400
    /\ s.outcome.error.details = Text("INVALID_ARGUMENT")

\* C1: a run that returns successfully returns the data of a get on the
\* revision name that was issued after a status query answered done without an
\* error; it never succeeds before done was seen, and never returns the payload
\* embedded in the operation.
C1_RunReturnsRefetchedSnapshot ==
    \A p \in Procs :
        LET s == call[p] IN
        (s.op = "run" /\ Succeeded(s)) =>
            /\ \E d \in DOMAIN s.log, g \in DOMAIN s.log :
                  /\ s.log[d] = "done"
                  /\ s.log[g] = "get:revision"
                  /\ d < g
                  /\ Len(s.log) = g + 1
                  /\ s.log[g + 1] = "got"
            /\ Count(s.log, "doneErr") = 0
            /\ Count(s.log, "get:investigation") = 0
            /\ s.outcome.value.data = s.got
            /\ s.outcome.value.data # OpPayload

C1_Witness ==
    \E p \in Procs :
        LET s == call[p] IN
        /\ s.op = "run" /\ Succeeded(s)
        /\ Count(s.log, "notdone") >= 1
        /\ s.outcome.value.data = SnapB

\* C2 as stated: when the status is not-done on queries 1..k-1 and done without
\* error on query k, exactly k status queries are issued and the run succeeds.
C2_Original ==
    \A p \in Procs :
        LET s == call[p] IN
        (s.op = "run" /\ Finished(s) /\ Has(s.log, "done")) =>
            /\ Count(s.log, "status") = Count(s.log, "notdone") + 1
            /\ s.outcome.status = "ok"

\* C2 amended: when the status is not-done on queries 1..k-1 and done without
\* error on query k (1 <= k <= 20), exactly k status queries are issued, none
\* after the done one, then one get on the revision name; the run succeeds if
\* and only if that get returns.
C2_DoneAfterExactlyKQueries ==
    \A p \in Procs :
        LET s == call[p]
            k == Count(s.log, "notdone") + 1 IN
        (s.op = "run" /\ Has(s.log, "done")) =>
            /\ k \in 1..MAX_POLLING_ATTEMPTS
            /\ Count(s.log, "status") = k
            /\ Count(s.log, "done") = 1
            /\ \A i \in DOMAIN s.log, d \in DOMAIN s.log :
                  (s.log[i] = "status" /\ s.log[d] = "done") => i < d
            /\ Count(s.log, "get:revision") = 1
            /\ Count(s.log, "get:investigation") = 0
            /\ Finished(s) => (s.outcome.status = "ok" <=> Has(s.log, "got"))

C2_Witness ==
    \E p \in Procs :
        LET s == call[p] IN
        /\ s.op = "run" /\ Succeeded(s)
        /\ Count(s.log, "status") = MAX_POLLING_ATTEMPTS

\* C3 as stated: when no status query answers done, the run fails after exactly
\* 20 status queries with the timeout error (504) that carries the snapshot of
\* the investigation as currentStatus.
C3_Original ==
    \A p \in Procs :
        LET s == call[p] IN
        (s.op = "run" /\ Finished(s)
            /\ Count(s.log, "notdone") = MAX_POLLING_ATTEMPTS) =>
            /\ Count(s.log, "status") = MAX_POLLING_ATTEMPTS
            /\ s.outcome.status = "err"
            /\ s.outcome.error.code = 504
            /\ s.outcome.error.details = CurrentStatus(s.got)

\* C4: a status answer of done with an error ends the run at once with the
\* operation error, whose details are the remote error payload itself: no
\* further sleep, status query or get follows, and the catch block of the run
\* passes the error on as it is.
C4_OperationErrorVerbatim ==
    \A p \in Procs :
        LET s == call[p] IN
        (s.op = "run" /\ Has(s.log, "doneErr")) =>
            /\ Failed(s)
            /\ s.outcome.error =
                  ApiError("Investigation operation failed", 500, Payload(s.opError))
            /\ s.log[Len(s.log)] = "doneErr"
            /\ Gets(s.log) = 0

C4_Witness ==
    \E p \in Procs :
        LET s == call[p] IN
        /\ s.op = "run" /\ Has(s.log, "doneErr")
        /\ s.opError = "errY"
        /\ Count(s.log, "notdone") >= 2

\* C5: polling is sequential: at most one status query is outstanding, and
\* every status query, the first included, directly follows one completed
\* sleep, so no two queries are issued without a sleep between them.
C5_SequentialPolling ==
    \A p \in Procs :
        LET s == call[p]
            outstanding == Count(s.log, "status") - Answers(s.log) IN
        /\ outstanding \in {0, 1}
        /\ outstanding = 1 <=> s.pc = "poll"
        /\ Count(s.log, "sleep") = Count(s.log, "status")
        /\ \A i \in DOMAIN s.log :
              s.log[i] = "status" =>
                  /\ i > 1
                  /\ s.log[i - 1] = "sleep"
                  /\ i > 2 => s.log[i - 2] # "sleep"

C5_Witness ==
    \E p \in Procs :
        LET s == call[p] IN
        /\ s.pc = "poll"
        /\ Count(s.log, "status") >= 3

\* the base delays of the default tuning: 1, 2, 4, 8, 16, 32, 32, ...
DefaultBase(n) == IF n <= 6 THEN <<1, 2, 4, 8, 16, 32>>[n] ELSE 32

\* C6: the sleep of attempt n is min(initialBackoff * factor^(n-1), maxBackoff)
\* plus a jitter in [0, 1): 1, 2, 4, 8, 16, 32, 32, ... seconds with the
\* defaults; the backoff variable is multiplied by the factor after every
\* not-done answer and is never capped, and no base delay exceeds maxBackoff.
C6_BackoffSchedule ==
    \A p \in Procs :
        LET s == call[p]
            n == s.attempt
            base == Min(INITIAL_BACKOFF_SECONDS * Pow(BACKOFF_FACTOR, n - 1),
                        MAX_BACKOFF_SECONDS) IN
        (s.op = "run" /\ n >= 1) =>
            /\ s.backoffSeconds =
                  INITIAL_BACKOFF_SECONDS * Pow(BACKOFF_FACTOR, Count(s.log, "notdone"))
            /\ s.pc = "sleep" => n = Count(s.log, "notdone") + 1
            /\ s.delayMs - base * 1000 \in 0..999
            /\ base = DefaultBase(n)
            /\ base <= MAX_BACKOFF_SECONDS

C6_Witness ==
    \E p \in Procs :
        LET s == call[p] IN
        /\ s.pc = "sleep"
        /\ s.attempt = MAX_POLLING_ATTEMPTS
        /\ s.backoffSeconds = 524288
        /\ s.delayMs = 32999

\* C7 as stated: on one client, authentication and API discovery are each
\* performed at most once, in every interleaving of the operations on it.
C7_Original ==
    \A c \in Clients : authCalls[c] <= 1 /\ discoverCalls[c] <= 1

\* C8 as stated: once isInitialized is true it never becomes false again, and
\* the discovered API is never cleared.
C8_Original ==
    [][\A c \in Clients :
          isInitialized[c] => (isInitialized'[c] /\ geminiassist'[c] # 0)]_vars

\* C9 as stated: a fetch with a revisionId and no investigationId fails with
\* INVALID_ARGUMENT and issues neither a list nor a get.
C9_Original ==
    \A p \in Procs :
        LET s == call[p] IN
        (s.op = "fetch" /\ s.revisionId /\ ~s.investigationId /\ Finished(s)) =>
            /\ InvalidArgument(s)
            /\ Gets(s.log) = 0
            /\ Count(s.log, "list") = 0

\* C9 amended: a fetch with a revisionId and no investigationId always fails
\* and issues neither a list nor a get.  Through the fetch_investigation tool
\* it fails with INVALID_ARGUMENT before any client call (no authentication, no
\* discovery).  Directly on the client it fails with INVALID_ARGUMENT when the
\* initialization succeeded, and with the error of the initialization
\* (AUTH_FAILED, API_DISCOVERY_FAILED) when that failed.
C9_RevisionWithoutInvestigation ==
    \A p \in Procs :
        LET s == call[p]
            c == ClientOf(s, p) IN
        (s.op = "fetch" /\ s.revisionId /\ ~s.investigationId) =>
            /\ Gets(s.log) = 0
            /\ Count(s.log, "list") = 0
            /\ Finished(s) =>
                  /\ Failed(s)
                  /\ s.outcome.error.name = "ApiError"
                  /\ s.via = "tool" =>
                        InvalidArgument(s) /\ authCalls[c] = 0 /\ discoverCalls[c] = 0
                  /\ s.via = "client" =>
                        /\ InvalidArgument(s) <=> isInitialized[c]
                        /\ ~isInitialized[c] =>
                              s.outcome.error.details \in
                                  {Text("AUTH_FAILED"), Text("API_DISCOVERY_FAILED")}

C9_Witness ==
    \E p \in Procs :
        LET s == call[p] IN
        /\ s.op = "fetch" /\ s.revisionId /\ ~s.investigationId
        /\ s.via = "client"
        /\ InvalidArgument(s)
        /\ discoverCalls[ClientOf(s, p)] = 1

\* C10 as stated: a fetch with a page token and an investigationId fails with
\* INVALID_ARGUMENT and issues no backend call, through the tool and directly
\* on the client alike.  Read on a client whose initialization succeeded, so
\* that a failed authentication or discovery is not what the statement is
\* measured against.
C10_Original ==
    \A p \in Procs :
        LET s == call[p] IN
        (/\ s.op = "fetch" /\ s.next_page_token /\ s.investigationId
         /\ Finished(s)
         /\ (s.via = "client" => isInitialized[ClientOf(s, p)])) =>
            /\ InvalidArgument(s)
            /\ Gets(s.log) = 0
            /\ Count(s.log, "list") = 0

\* a fetch request the fetch_investigation tool accepts
ValidFetch(s) ==
    /\ s.op = "fetch"
    /\ ~(s.revisionId /\ ~s.investigationId)
    /\ ~(s.next_page_token /\ s.investigationId)

\* backend reads of investigations: gets and lists
Reads(log) == Gets(log) + Count(log, "list")

\* the invocation failed in _ensureReady
InitFailed(s) ==
    /\ Failed(s)
    /\ s.outcome.error.code \in {401, 500}
    /\ s.outcome.error.details \in {Text("AUTH_FAILED"), Text("API_DISCOVERY_FAILED")}

C12_Original ==
    \A p \in Procs :
        LET s == call[p] IN
        (s.op = "fetch" /\ ~s.investigationId /\ Has(s.log, "list")) =>
            /\ s.request.filter = s.filter_expression
            /\ s.request.pageToken = s.next_page_token

\* C13: addObservation issues its calls in the order get, merge,
\* createRevision: the get is on the investigation name and never on a revision
\* name, the createRevision is issued at most once, after the get returned,
\* with the investigation name as parent and as body the merge of the
\* observation and the resources into the record that get returned; when the
\* get fails no createRevision is issued.
C13_AddObservationOrder ==
    \A p \in Procs :
        LET s == call[p] IN
        s.op = "add" =>
            /\ Count(s.log, "get:revision") = 0
            /\ Count(s.log, "get:investigation") <= 1
            /\ Count(s.log, "createRev") <= 1
            /\ Has(s.log, "createRev") =>
                  /\ s.log = <<"get:investigation", "got", "createRev">>
                  /\ s.request =
                        Request("revisions.create", "investigation",
                                getRevisionWithNewObservation(
                                    s.got, s.observation, s.relevant_resources),
                                FALSE, FALSE)
            /\ Has(s.log, "getThrew") => ~Has(s.log, "createRev")

C13_Witness ==
    \E p \in Procs :
        LET s == call[p] IN
        /\ s.op = "add" /\ Succeeded(s)
        /\ s.got = SnapA
        /\ PrimaryOf(s.request.body.snapshot).text = <<0, 1>>
        /\ Len(PrimaryOf(s.request.body.snapshot).relevantResources) = 2

\* C14: when the record the get returned is null, so that the merge returns
\* null, addObservation fails with PAYLOAD_CREATION_FAILED, issues no
\* createRevision, and the caller receives that very error, not a generic
\* add-observation failure wrapped around it.
C14_PayloadCreationFailed ==
    \A p \in Procs :
        LET s == call[p] IN
        (s.op = "add" /\ Has(s.log, "got") /\ s.got = NullData) =>
            /\ Failed(s)
            /\ s.outcome.error =
                  ApiError("Failed to create new revision payload.", 500,
                           Text("PAYLOAD_CREATION_FAILED"))
            /\ ~Has(s.log, "createRev")
            /\ s.log = <<"get:investigation", "got">>

C14_Witness ==
    \E p \in Procs :
        LET s == call[p] IN
        /\ s.op = "add" /\ s.via = "client"
        /\ s.got = NullData
        /\ Failed(s)
        /\ s.outcome.error.details = Text("PAYLOAD_CREATION_FAILED")

\* C15 as stated: after any successful addObservation calls on one
\* investigation, one after another or interleaved, the primary user
\* observation of the latest revision holds the text and the resources of
\* every one of them.
C15_Original ==
    \A p \in Procs :
        LET s == call[p] IN
        (s.op = "add" /\ Succeeded(s)) =>
            /\ HasPrimary(remote)
            /\ InList(PrimaryOf(remote).text, s.observation)
            /\ \A i \in DOMAIN s.relevant_resources :
                  InList(PrimaryOf(remote).relevantResources, s.relevant_resources[i])

\* C16: create_investigation and add_observation validate relevant_resources
\* first: with at least one malformed entry the tool ends at once with the
\* INVALID_ARGUMENT error that names every malformed entry, no client is
\* initialized and no authentication, discovery, get, create or createRevision
\* is issued.
C16_ResourcesValidatedFirst ==
    \A p \in Procs :
        LET s == call[p]
            invalid_resources == validateGcpResources(s.relevant_resources) IN
        (/\ s.via = "tool" /\ s.op \in {"create", "add"}
         /\ invalid_resources # <<>>
         /\ s.pc # "idle") =>
            /\ InvalidArgument(s)
            /\ s.outcome.error.args = invalid_resources
            /\ \A i \in DOMAIN s.relevant_resources :
                  ~IsValidGcpResource(s.relevant_resources[i]) =>
                      InList(s.outcome.error.args, s.relevant_resources[i])
            /\ s.result = ToToolResult(s.outcome.error)
            /\ s.log = <<>>
            /\ s.request = NoRequest
            /\ authCalls[p] = 0 /\ discoverCalls[p] = 0
            /\ ~isInitialized[p] /\ geminiassist[p] = 0

C16_Witness ==
    \E p \in Procs :
        LET s == call[p] IN
        /\ s.via = "tool" /\ s.op = "add"
        /\ InvalidArgument(s)
        /\ s.outcome.error.args = <<BadResource(1), BadResource(2)>>

\* C17: every failure of a client operation reaches the caller as an ApiError
\* with a code: an exception of the transport, at whatever step it is thrown,
\* is wrapped and never passed on as it is.
C17_FailuresAreApiErrors ==
    \A p \in Procs :
        LET s == call[p] IN
        Failed(s) =>
            /\ s.outcome.error.name = "ApiError"
            /\ s.outcome.error.code \in {400, 401, 404, 500, 504}
            /\ (\E i \in DOMAIN s.log : s.log[i] \in {"statusThrew", "getThrew"}) =>
                  s.outcome.error.code \in {404, 500}

C17_Witness ==
    \E p \in Procs :
        LET s == call[p] IN
        /\ s.op = "run" /\ s.via = "client"
        /\ Has(s.log, "statusThrew")
        /\ Failed(s)
        /\ s.outcome.error =
              ApiError("Error running investigation", 500, Text("No details available."))

\* C18 as stated: every tool invocation resolves with a result, and when the
\* operation failed the result is a structured error with a code and the
\* message, whether the failure is an ApiError or not.
C18_Original ==
    \A p \in Procs :
        LET s == call[p] IN
        (s.via = "tool" /\ Finished(s)) =>
            /\ s.result.type # "none"
            /\ s.outcome.status = "err" =>
                  /\ s.result.type = "error"
                  /\ s.result.code # 0
                  /\ s.result.message = s.outcome.error.message

\* C19 as stated: in the body createInvestigation submits, every observation
\* that had timeRanges in the input has that value as timeIntervals and no
\* observation has timeRanges.
C19_Original ==
    \A p \in Procs :
        LET s == call[p] IN
        (s.op = "create" /\ Has(s.log, "create") /\ s.investigation.hasObservations) =>
            \A id \in DOMAIN s.investigation.observations :
                /\ Truthy(s.investigation.observations[id].timeRanges) =>
                      s.request.body.observations[id].timeIntervals =
                          s.investigation.observations[id].timeRanges
                /\ ~Truthy(s.request.body.observations[id].timeRanges)

\* C20: a merge into a record that has a primary user observation adds no
\* observation: the number of observations of observer type user, and the set
\* of observation ids, are the same after the merge as before, however many
\* merges went before.
C20_MergeAddsNoObservation ==
    [][HasPrimary(remote) =>
          /\ UserObservationCount(remote') = UserObservationCount(remote)
          /\ DOMAIN remote'.observations = DOMAIN remote.observations]_vars

C20_Witness ==
    /\ HasPrimary(remote)
    /\ remote.title = "A"
    /\ Len(PrimaryOf(remote).text) >= 3
    /\ UserObservationCount(remote) = 2

\* the last call of the merge returned a payload
Merged(m) == m.texts # <<>> /\ m.payload # NullData
\* the last call of the merge was given a record with a primary user observation
MergedIntoPrimary(m) == Merged(m) /\ HasPrimary(m.latestRevision)

\* C21: a merge appends and never replaces or truncates: the text of the
\* primary observation after the merge is the whole text before it followed
\* by the new text, so it is strictly longer; after merges with the texts t1,
\* t2, ... the text is the original text followed by t1, t2, ... in that order.
C21_MergeAppends ==
    LET m == call[1] IN
    MergedIntoPrimary(m) =>
        LET old == PrimaryOf(m.latestRevision).text
            new == PrimaryOf(m.payload.snapshot).text
        IN /\ new = old \o <<m.observation>>
           /\ Len(new) > Len(old)
           /\ HasPrimary(m.original) =>
                  PrimaryOf(remote).text = PrimaryOf(m.original).text \o m.texts

C21_Witness ==
    LET m == call[1] IN
    /\ MergedIntoPrimary(m)
    /\ HasPrimary(m.original)
    /\ m.texts = <<1, 2>>
    /\ PrimaryOf(remote).text = <<0, 1, 2>>

NoDuplicates(list) == \A i, j \in DOMAIN list : list[i] = list[j] => i = j
\* the place of the first occurrence of x in list
FirstIndex(list, x) == CHOOSE i \in DOMAIN list :
                            list[i] = x /\ \A j \in 1..(i - 1) : list[j] # x

\* C22: a merge treats relevantResources as an ordered set: the resources the
\* primary observation held keep their places, a submitted resource that is
\* held already is not added, the new ones follow in the order of their first
\* occurrence in the input, and the merged list has no duplicate, also when
\* the input repeats a resource.
C22_ResourcesOrderedSet ==
    LET m == call[1] IN
    MergedIntoPrimary(m) =>
        LET old == PrimaryOf(m.latestRevision).relevantResources
            new == PrimaryOf(m.payload.snapshot).relevantResources
            given == m.relevant_resources
        IN /\ Len(new) >= Len(old)
           /\ \A i \in DOMAIN old : new[i] = old[i]
           /\ \A i \in DOMAIN given : InList(new, given[i])
           /\ \A i \in (Len(old) + 1)..Len(new) :
                  /\ InList(given, new[i])
                  /\ ~InList(old, new[i])
           /\ \A i, j \in (Len(old) + 1)..Len(new) :
                  i < j => FirstIndex(given, new[i]) < FirstIndex(given, new[j])
           /\ NoDuplicates(new)

C22_Witness ==
    LET m == call[1] IN
    /\ MergedIntoPrimary(m)
    /\ PrimaryOf(m.latestRevision).relevantResources = <<GcpResource(0), GcpResource(1)>>
    /\ m.relevant_resources = <<GcpResource(2), GcpResource(0), GcpResource(2)>>
    /\ PrimaryOf(remote).relevantResources =
          <<GcpResource(0), GcpResource(1), GcpResource(2)>>

\* C23: a merge into a null record returns null, whatever the text and the
\* resources, and nothing is merged.
C23_MergeOfNullIsNull ==
    LET m == call[1] IN
    m.texts # <<>> /\ m.latestRevision = NullData =>
        /\ m.payload = NullData
        /\ remote = NullData

C23_Witness ==
    LET m == call[1] IN
    /\ m.latestRevision = NullData
    /\ m.texts = <<2, 1>>
    /\ m.relevant_resources = <<GcpResource(1)>>
    /\ m.payload = NullData

\* C24: a merge into a record without an observations mapping returns a
\* payload whose observations mapping has exactly one entry: a new primary
\* user observation holding the given text and the given resources.
C24_MergeCreatesPrimary ==
    LET m == call[1] IN
    Merged(m) /\ ~m.latestRevision.hasObservations =>
        LET snapshot == m.payload.snapshot IN
        /\ snapshot.hasObservations
        /\ DOMAIN snapshot.observations = {PRIMARY_USER_OBSERVATION_ID}
        /\ LET o == PrimaryOf(snapshot) IN
              /\ o.id = PRIMARY_USER_OBSERVATION_ID
              /\ o.observerType = "OBSERVER_TYPE_USER"
              /\ o.text = <<m.observation>>
              /\ {o.relevantResources[i] : i \in DOMAIN o.relevantResources} =
                    {m.relevant_resources[i] : i \in DOMAIN m.relevant_resources}

C24_Witness ==
    LET m == call[1] IN
    /\ Merged(m)
    /\ m.latestRevision = SnapB
    /\ m.observation = 2
    /\ m.relevant_resources = <<GcpResource(1)>>
    /\ PrimaryOf(remote).text = <<2>>
    /\ PrimaryOf(remote).relevantResources = <<GcpResource(1)>>
    /\ UserObservationCount(remote) = 1

\* C25: the merge is a pure function: the record passed to it holds after the
\* call what it held before, the snapshot returned is the merge of that value
\* and shares no object with the record passed, so that an assignment to the
\* one never changes the other.
C25_MergeIsPure ==
    LET m == call[1] IN
    /\ m.step = "merge" /\ m.arg # 0 =>
          /\ ValueAt(m.heap, m.arg) = m.argBefore
          /\ ValueAt(m.heap, SnapshotOf(m)) =
                getRevisionWithNewObservation(m.argBefore, m.observation,
                                              m.relevant_resources).snapshot
          /\ ReachFrom(m.heap, m.arg) \cap ReachFrom(m.heap, SnapshotOf(m)) = {}
    /\ m.step = "mutateArg" =>
          /\ ValueAt(m.heap, m.arg) # m.argBefore
          /\ ValueAt(m.heap, SnapshotOf(m)) = m.resultBefore
    /\ m.step = "mutateResult" =>
          /\ ValueAt(m.heap, SnapshotOf(m)) # m.resultBefore
          /\ ValueAt(m.heap, m.arg) = m.argBefore

C25_Witness ==
    LET m == call[1] IN
    /\ m.step = "mutateResult"
    /\ m.n = 2
    /\ m.argBefore = SnapA
    /\ ValueAt(m.heap, m.arg) = SnapA
    /\ InList(PrimaryOf(ValueAt(m.heap, SnapshotOf(m))).relevantResources,
              BadResource(9))

\* the parsed path is the path given and its name is the name that was parsed
RoundTrips(m) ==
    /\ m.parsed.kind = "path"
    /\ m.parsed.path = m.path
    /\ m.rebuilt = m.name

\* C26 as stated: for all non-empty identifiers the revision name parses back
\* to the same three components and the parsed path gives the same name
\* again; an investigation name parses with revisionId null and a project
\* name with investigationId null.
C26_Original ==
    LET m == call[1] IN
    m.step = "built" /\ m.constructed.ok =>
        /\ Truthy(m.path.revisionId) => RoundTrips(m)
        /\ ~Truthy(m.path.revisionId) =>
              m.parsed.kind = "path" /\ m.parsed.path.revisionId = Absent
        /\ ~Truthy(m.path.investigationId) =>
              m.parsed.kind = "path" /\ m.parsed.path.investigationId = Absent

\* an identifier without a "/"
OnePiece(id) == Len(id) <= 1

\* C26 amended: the round trip holds for the identifiers that contain no "/".
C26_RoundTrip ==
    LET m == call[1] IN
    /\ m.step = "built" /\ m.constructed.ok
    /\ OnePiece(m.path.projectId) /\ OnePiece(m.path.investigationId)
    /\ OnePiece(m.path.revisionId)
    => /\ RoundTrips(m)
       /\ ~Truthy(m.path.revisionId) => m.parsed.path.revisionId = Absent
       /\ ~Truthy(m.path.investigationId) => m.parsed.path.investigationId = Absent

C26_Witness ==
    LET m == call[1] IN
    /\ m.step = "built"
    /\ m.path = PathOf(<<"p1">>, <<"revisions">>, <<"r1">>)
    /\ m.name = Returned(<<"projects", "p1", "locations", "global",
                           "investigations", "revisions", "revisions", "r1">>)
    /\ RoundTrips(m)

\* name is the project, investigation or revision name of some identifiers
\* without a "/"
WellShaped(name) ==
    LET ids == {<<name[k]>> : k \in {j \in DOMAIN name : name[j] # ""}} IN
    \/ \E p \in ids : name = getParent(PathOf(p, Absent, Absent))
    \/ \E p, i \in ids : name = getInvestigationName(PathOf(p, i, Absent)).value
    \/ \E p, i, r \in ids : name = getRevisionName(PathOf(p, i, r)).value

\* C27: parsing never raises, and a string that is not a project,
\* investigation or revision name (the empty string, "invalid/path", a name
\* with a piece missing, changed or added) parses to null, while a name of one
\* of the three shapes parses to the path that has this name.
C27_MalformedParsesToNull ==
    LET m == call[1] IN
    m.step = "parsed" =>
        /\ m.parsed.kind # "error"
        /\ ~WellShaped(m.name.value) => m.parsed = ParsedNull
        /\ WellShaped(m.name.value) =>
              m.parsed.kind = "path" /\ FullName(m.parsed.path) = m.name

C27_Witness ==
    LET m == call[1] IN
    /\ m.step = "parsed"
    /\ m.name.value = <<"projects", "p1", "locations", "global", "revisions", "r1">>
    /\ ~WellShaped(m.name.value)
    /\ m.parsed = ParsedNull

\* the path functions on strings fail exactly when the client's calls of them
\* are taken to fail, with the errors of the kinds named, and a name that is
\* returned holds every identifier it is made of
PathFunctionsFailTyped ==
    \A projectId \in PathIds, investigationId \in PathIds \cup {Absent},
       revisionId \in PathIds \cup {Absent} :
        LET constructed == InvestigationPath(projectId, investigationId, revisionId)
            i == Truthy(investigationId)
            r == Truthy(revisionId)
        IN /\ ~constructed.ok <=> PathCtorFails(i, r)
           /\ ~constructed.ok <=> (r /\ ~i)
           /\ ~constructed.ok => constructed.error.details = Text("INVALID_ARGUMENT")
           /\ constructed.ok =>
                LET revisionName == getRevisionName(constructed.path)
                    investigationName == getInvestigationName(constructed.path)
                IN /\ ~revisionName.ok <=> GetRevisionNameFails(i, r)
                   /\ revisionName.ok <=> (i /\ r)
                   /\ ~revisionName.ok =>
                         revisionName.error = MissingIdentifier("Revision ID are not set")
                   /\ revisionName.ok =>
                         revisionName.value =
                            investigationName.value \o <<"revisions">> \o revisionId
                   /\ ~investigationName.ok <=> GetInvestigationNameFails(i)
                   /\ investigationName.ok <=> i
                   /\ ~investigationName.ok =>
                         investigationName.error.details = Text("MISSING_IDENTIFIER")
                   /\ investigationName.ok =>
                         investigationName.value =
                            getParent(constructed.path) \o <<"investigations">>
                                \o investigationId

\* C28: a path yields no name it lacks identifiers for: getRevisionName fails
\* with "Revision ID are not set" unless investigationId and revisionId are
\* set, getInvestigationName fails unless investigationId is set, and the
\* constructor fails with INVALID_ARGUMENT for a revisionId without an
\* investigationId; so runInvestigation sends a run request only when both
\* identifiers are given, and otherwise fails with that error and sends nothing.
C28_NoNameWithoutIdentifiers ==
    /\ PathFunctionsFailTyped
    /\ \A p \in Procs :
          LET s == call[p] IN
          s.op = "run" =>
              /\ Has(s.log, "run") => s.investigationId /\ s.revisionId
              /\ (Finished(s) /\ ~InitFailed(s)
                    /\ ~(s.investigationId /\ s.revisionId)) =>
                    /\ Failed(s)
                    /\ s.request = NoRequest
                    /\ s.outcome.error =
                          (IF s.revisionId
                           THEN InvalidArgumentError("revisionId requires investigationId")
                           ELSE MissingIdentifier("Revision ID are not set"))

C28_Witness ==
    \E p \in Procs :
        LET s == call[p] IN
        /\ s.op = "run" /\ s.investigationId /\ ~s.revisionId
        /\ isInitialized[ClientOf(s, p)]
        /\ Failed(s)
        /\ s.outcome.error = MissingIdentifier("Revision ID are not set")
        /\ s.request = NoRequest

\* the k-th smallest member of a set of numbers
KthSmallest(S, k) == CHOOSE i \in S : Cardinality({j \in S : j <= i}) = k

\* C29: validateGcpResources returns exactly the entries that are not
\* well-formed resource URIs, as often and in the order they occur in the
\* input: nothing for an empty or all-valid list, and the empty string and
\* every entry that is not a string are among the invalid ones.
C29_ReturnsInvalidSublist ==
    LET m == call[1] IN
    m.step = "validated" =>
        LET invalidAt == {i \in DOMAIN m.resources : m.resources[i].form # "gcp"} IN
        /\ Len(m.invalid) = Cardinality(invalidAt)
        /\ \A k \in DOMAIN m.invalid :
              m.invalid[k] = m.resources[KthSmallest(invalidAt, k)]
        /\ (\A i \in DOMAIN m.resources : m.resources[i].form = "gcp") =>
              m.invalid = <<>>
        /\ \A i \in DOMAIN m.resources :
              m.resources[i].form \in {"empty", "null", "undefined", "number", "object"}
                  => InList(m.invalid, m.resources[i])

C29_Witness ==
    LET m == call[1] IN
    /\ m.step = "validated"
    /\ m.resources = <<OddEntry("null"), GcpResource(0), BadResource(1)>>
    /\ m.invalid = <<OddEntry("null"), BadResource(1)>>

\* C30: the presentation follows the operation: what create_investigation
\* and add_observation return is rendered without the observations and
\* hypotheses sections (neither header in it), what run_investigation and
\* a fetch of one investigation return is rendered with all sections.
C30_PresentationFollowsOperation ==
    \A p \in Procs :
        LET s == call[p] IN
        s.via = "tool" /\ Succeeded(s) /\ (s.op = "fetch" => s.investigationId) =>
            LET text == render(s.result.value.data, s.result.value.full) IN
            /\ s.result.type = "text"
            /\ s.result.value.form = "report"
            /\ s.op \in {"create", "add"} =>
                  /\ ~InList(text, "## Relevant Observations")
                  /\ ~InList(text, "## Hypotheses")
            /\ s.op \in {"run", "fetch"} =>
                  /\ InList(text, "## Relevant Observations")
                  /\ InList(text, "## Hypotheses")

C30_Witness ==
    \E p \in Procs :
        LET s == call[p] IN
        /\ s.via = "tool" /\ s.op = "add" /\ Succeeded(s)
        /\ s.result.value = Report(remote, FALSE)
        /\ render(s.result.value.data, s.result.value.full) =
              <<"## Issue", "Investigation Link">>

\* the invocation listed investigations and the call returned
Listed(s) ==
    s.op = "fetch" /\ s.listed # NoData /\ s.pc = "done" /\ s.outcome.status = "ok"

\* the paragraphs the invocation got back
ListedText(s) == s.outcome.value.data.text

\* C31: the text a listing returns is exactly "No investigations found." when
\* the backend's answer has no investigations (the list missing or empty);
\* otherwise it is one block per investigation, in the backend's order, and
\* after the blocks the line that quotes the page token, which is there if
\* and only if the answer has a nextPageToken.
C31_ListingOutput ==
    \A p \in Procs :
        LET s == call[p] IN
        Listed(s) =>
            LET data == s.listed
                text == ListedText(s)
                n == Len(data.investigations)
            IN IF ~data.hasInvestigations \/ n = 0
               THEN text = <<Text("No investigations found.")>>
               ELSE /\ Len(text) = n + (IF Truthy(data.nextPageToken) THEN 1 ELSE 0)
                    /\ \A k \in 1..n :
                          /\ text[k].kind = "block"
                          /\ text[k].title = data.investigations[k].title
                          /\ text[k].state = data.investigations[k].executionState
                    /\ Truthy(data.nextPageToken) =>
                          text[n + 1] = MoreLine(data.nextPageToken)

C31_Witness ==
    \E p \in Procs :
        LET s == call[p] IN
        /\ Listed(s)
        /\ Len(s.listed.investigations) = 2
        /\ s.listed.investigations[1].title = "second"
        /\ s.listed.investigations[2].title = "first"
        /\ s.listed.nextPageToken = <<"token">>
        /\ Len(ListedText(s)) = 3
        /\ ListedText(s)[1].id = <<"i2">>
        /\ ListedText(s)[3] = MoreLine(<<"token">>)

\* C32: a name that cannot be parsed does not make a listing fail: once
\* investigations.list has answered, the call returns its text; the block of
\* an entry whose name parses to null shows the id "N/A", and every entry of
\* the answer has its block.
C32_MalformedNameShowsNA ==
    \A p \in Procs :
        LET s == call[p] IN
        s.listed # NoData =>
            /\ Listed(s)
            /\ \A k \in DOMAIN s.listed.investigations :
                  LET inv == s.listed.investigations[k]
                      block == ListedText(s)[k]
                  IN /\ block.kind = "block" /\ block.title = inv.title
                     /\ fromInvestigationName(inv.name).kind = "null" =>
                           /\ block.id = <<"N/A">>
                           /\ block.link = getInvestigationLink(ListProject, <<"N/A">>)

C32_Witness ==
    \E p \in Procs :
        LET s == call[p] IN
        /\ Listed(s)
        /\ Len(s.listed.investigations) = 2
        /\ s.listed.investigations[1].name = <<"invalid", "path">>
        /\ ListedText(s)[1].id = <<"N/A">>
        /\ ListedText(s)[2].id = <<"i1">>
        /\ s.via = "tool" /\ s.result.type = "text"

\* C33 as stated: a run gives up on an operation that is still running only
\* when its attempts are used up; it then issues exactly one get, on the name
\* of the investigation and not of the revision, and whatever that get
\* returns or raises the run fails with the timeout error (504).
C33_Original ==
    \A p \in Procs :
        LET s == call[p] IN
        (s.op = "run" /\ Finished(s) /\ Has(s.log, "notdone")
            /\ Count(s.log, "done") + Count(s.log, "doneErr")
                  + Count(s.log, "statusThrew") = 0) =>
            /\ Count(s.log, "notdone") = MAX_POLLING_ATTEMPTS
            /\ Count(s.log, "get:investigation") = 1
            /\ Count(s.log, "get:revision") = 0
            /\ Failed(s)
            /\ s.outcome.error.code = 504
            /\ s.outcome.error.message =
                  "Investigation did not complete within the timeout period."

\* C34: a status query that throws is not retried: the run ends at that
\* attempt, with no sleep, status query or get after it, and fails with the
\* wrapped error of a remote call (500, "Error running investigation"),
\* which is neither the timeout nor the operation error, however many
\* attempts remain.
C34_StatusFailureNotRetried ==
    \A p \in Procs :
        LET s == call[p] IN
        (s.op = "run" /\ Has(s.log, "statusThrew")) =>
            /\ Failed(s)
            /\ s.log[Len(s.log)] = "statusThrew"
            /\ Count(s.log, "statusThrew") = 1
            /\ Gets(s.log) = 0
            /\ Count(s.log, "sleep") = Count(s.log, "status")
            /\ s.outcome.error.name = "ApiError"
            /\ s.outcome.error.code = 500
            /\ s.outcome.error.message = "Error running investigation"
            /\ s.outcome.error.details \in {Payload("errX"), Text("No details available.")}

C34_Witness ==
    \E p \in Procs :
        LET s == call[p] IN
        /\ s.op = "run" /\ Failed(s)
        /\ Count(s.log, "notdone") = 2
        /\ Count(s.log, "status") = 3
        /\ s.log[Len(s.log)] = "statusThrew"
        /\ s.attempt = 3 /\ s.attempt < MAX_POLLING_ATTEMPTS
        /\ s.outcome.error.details = Payload("errX")

\* the outcomes of a run whose request was sent
RunOutcome(s) ==
    IF s.outcome.status = "ok" THEN "success"
    ELSE IF s.outcome.error.message = "Investigation operation failed"
    THEN "OperationError"
    ELSE IF s.outcome.error.code = 504 THEN "Timeout"
    ELSE IF s.outcome.error.code \in {404, 500} THEN "remote-call failure"
    ELSE "other"

C36_WorstCaseWait ==
    LET s == call[1] IN
    /\ s.attempt \in 0..MAX_POLLING_ATTEMPTS
    /\ s.baseMs <= 511 * 1000
    /\ s.waitedMs - s.baseMs < 20 * 1000
    /\ s.attempt = MAX_POLLING_ATTEMPTS =>
          /\ s.baseMs = (1 + 2 + 4 + 8 + 16 + 15 * 32) * 1000
          /\ s.baseMs = 511 * 1000
          /\ ~ENABLED SleepAndPoll

C36_Witness ==
    LET s == call[1] IN
    /\ s.attempt = MAX_POLLING_ATTEMPTS
    /\ s.baseMs = 511000
    /\ s.waitedMs = 511000 + 20 * 999
    /\ s.delayMs = 32999

\* the backend calls of the investigations API the invocation has issued
Issued(log) ==
    Reads(log) + Count(log, "create") + Count(log, "run") + Count(log, "createRev")

\* C37: a client that is marked initialized holds the discovered API: in
\* every state isInitialized implies that geminiassist is not null, and an
\* operation that has issued a list, get, create or run call, or waits for
\* one, works on a client whose geminiassist is not null.
C37_InitializedHasHandle ==
    /\ \A c \in Clients : isInitialized[c] => geminiassist[c] # 0
    /\ \A p \in Procs :
          LET s == call[p] IN
          (Issued(s.log) > 0 \/ s.pc \in {"list", "get", "create", "run", "createRev"})
              => geminiassist[ClientOf(s, p)] # 0

C37_Witness ==
    \E p, q \in Procs :
        /\ p # q
        /\ isInitialized[SharedClient]
        /\ authCalls[SharedClient] = 1 /\ discoverCalls[SharedClient] = 1
        /\ geminiassist[SharedClient] = q
        /\ call[p].pc = "get" /\ Issued(call[p].log) = 1

\* C38: a failed initialization is not kept: an operation whose
\* authentication or discovery fails ends with AUTH_FAILED (401) or
\* API_DISCOVERY_FAILED (500), has issued no investigation call, and leaves
\* isInitialized false as it was; the next operation, started on the client
\* when that one has ended, finds the client not initialized and
\* calls getAccessToken again, and google.discoverAPI again once that
\* returned; licenseValidated never goes from true to false.
C38_FailedInitNotSticky ==
    [][\A p \in Procs :
          LET s == call[p]
              t == call'[p]
              c == ClientOf(s, p)
          IN /\ (s.pc \in {"auth", "discover"} /\ t.pc = "done" /\ Failed(t)) =>
                   /\ t.outcome.error =
                         IF s.pc = "auth"
                         THEN ApiError("Authentication failed.", 401, Text("AUTH_FAILED"))
                         ELSE ApiError("Failed to discover API.", 500,
                                       Text("API_DISCOVERY_FAILED"))
                   /\ Issued(t.log) = 0
                   /\ ~isInitialized[c] /\ ~isInitialized'[c]
             /\ (s.pc = "idle" /\ t.pc # "idle" /\ ~isInitialized[c]) =>
                   /\ t.pc = "auth"
                   /\ authCalls'[c] = authCalls[c] + 1
             /\ (s.pc = "auth" /\ t.pc # "auth" /\ ~Failed(t)) =>
                   /\ t.pc = "discover"
                   /\ discoverCalls'[c] = discoverCalls[c] + 1
             /\ licenseValidated[c] => licenseValidated'[c]]_vars

C38_Witness ==
    \E p, q \in Procs :
        /\ p # q
        /\ InitFailed(call[p])
        /\ call[p].outcome.error.details = Text("API_DISCOVERY_FAILED")
        /\ authCalls[SharedClient] = 2 /\ discoverCalls[SharedClient] = 2
        /\ Succeeded(call[q])
        /\ geminiassist[SharedClient] = q
        /\ isInitialized[SharedClient] /\ licenseValidated[SharedClient]

\* C39: createInvestigation does not change the payload its caller passes:
\* after the call, whether it returned or threw, the caller's object holds
\* the value it held before and shares no object with the request body, and
\* it is the request body that carries the payload with timeRanges rewritten
\* to timeIntervals.
C39_CreateLeavesPayload ==
    LET m == call[1] IN
    m.step \in {"created", "failed"} =>
        /\ ValueAt(m.heap, m.arg) = m.argBefore
        /\ ReachFrom(m.heap, m.arg) \cap ReachFrom(m.heap, m.body) = {}
        /\ ValueAt(m.heap, m.body) = InvestigationForRequest(m.argBefore)

C39_Witness ==
    LET m == call[1] IN
    /\ m.step = "failed"
    /\ m.argBefore.hasObservations
    /\ LET before == m.argBefore.observations[PRIMARY_USER_OBSERVATION_ID]
           after == ValueAt(m.heap, m.arg).observations[PRIMARY_USER_OBSERVATION_ID]
           sent == ValueAt(m.heap, m.body).observations[PRIMARY_USER_OBSERVATION_ID]
       IN /\ before.timeRanges = <<"start">> /\ before.timeIntervals = Absent
          /\ after.timeRanges = <<"start">> /\ after.timeIntervals = Absent
          /\ sent.timeRanges = Absent /\ sent.timeIntervals = <<"start">>

====
